---- MODULE Spec2Model ----
(***************************************************************************)
(* termboxUI: a model of the Menu navigation state machine, the goroutine  *)
(* that a Menu starts on Enter, the UI field composition, and the EditBox, *)
(* TextBox and Table widgets.                                              *)
(***************************************************************************)
EXTENDS Integers, Sequences, FiniteSets, TLC

VARIABLES
    Options,        \* Menu.Options: sequence of MenuOption records
    Height,         \* Menu.Height
    Mode,           \* Menu.Mode: "MenuList" or "MenuGrid"
    DrawHelpBox,    \* Menu.DrawHelpBox
    activeIndex,    \* Menu.activeIndex
    menuTop,        \* Menu.menuTop
    menuBottom,     \* Menu.menuBottom
    hangs,          \* the commands (by id) that never return
    tasks,          \* goroutines started by `go ...ExecuteCommand(results)`, in start order
    results,        \* the UIEvents the consumer has received from the result channel
    panicked,       \* TRUE once a run-time panic has ended the program
    eventConsumed,  \* the value returned by the last HandleKey / HandleInput
    lastOp,         \* the operation performed by the last step
    downs,          \* number of Down keys since CreateMenu while nothing but Down was pressed, else -1
    pressed,        \* for each goroutine started by Enter, the activeIndex when Enter was pressed
    Fg,             \* UI.Fg
    Bg,             \* UI.Bg
    fields,         \* UI.fields: sequence of Field records
    surface,        \* what the last step did with the terminal: Clear, the fields' Draw calls, Flush
    calls,          \* the fields whose HandleKey the last step called, in order
    inputConsumed,  \* the value returned by UI.HandleInput in the last step
    eb,             \* the EditBox: Width, Value, CursorIndex, CustomType
    sending,        \* the UIEvent EditBox.HandleKey is blocked sending (`ev <- event`), if any
    typed,          \* the runes typed since CreateEditBox while nothing else was pressed, else <<-1>>
    tb,             \* the TextBox: Width, Height, HasBorder, WrapText, text, textHeight, activeIndex, scrolling
    table,          \* the Table: Height, Columns, Rows, cells
    ok,             \* the value returned by the last Table.SetCell
    declared,       \* the columns and rows given to CreateTable
    mainpc,         \* where main of the menu example is: "top", "select", "HandleInput", "exit"; "none" without main
    polls,          \* the goroutines started by pollEvent(), in start order, each with its own channel
    refresh         \* main's variable refresh

menuVars == <<Options, Height, Mode, DrawHelpBox, activeIndex, menuTop, menuBottom>>
goVars   == <<hangs, tasks, results>>
uiVars   == <<Fg, Bg, fields, surface, calls, inputConsumed>>
widgetVars == <<eb, sending, typed, tb, table, ok, declared>>
loopVars == <<mainpc, polls, refresh>>
vars     == <<Options, Height, Mode, DrawHelpBox, activeIndex, menuTop, menuBottom,
              hangs, tasks, results, panicked, eventConsumed, lastOp, downs,
              pressed, Fg, Bg, fields, surface, calls, inputConsumed,
              eb, sending, typed, tb, table, ok, declared,
              mainpc, polls, refresh>>

----------------------------------------------------------------------------
(* Bounds of the model *)

MaxHeight == 3
MaxOptions == 3
MaxEnters == 2
MaxDowns == 3
MaxKeyEnters == 1
DispatchHeight == 2
DispatchOptions == 2
MaxFields == 2
UIOptions == 2
MaxValue == 4
MaxCursor == 5
MaxSends == 1
MaxSent == 2
MaxWidth == 3
MaxLines == 3
MaxTextHeight == 3
MaxColumns == 1
MaxRows == 2
MaxTableHeight == 2
MaxInsert == 4

(* Program constants *)

MenuInsertLast == -1
Digits == <<"1", "2", "3", "4", "5", "6", "7", "8", "9">>

----------------------------------------------------------------------------
(* MenuOption and the option list *)

\* The i-th option handed to InsertMenuOption: its command returns UIEvent i.
MenuOption(i) == [Title |-> i, Command |-> i]

\* Go slice indexing is 0-based.
At(s, i) == s[i + 1]
InRange(s, i) == 0 <= i /\ i < Len(s)

\* copy(dst, src): the first min(len(dst), len(src)) elements of src overwrite dst.
Min(a, b) == IF a < b THEN a ELSE b
Copy(dst, src) ==
    [k \in 1..Len(dst) |-> IF k <= Min(Len(dst), Len(src)) THEN src[k] ELSE dst[k]]

\* make([]MenuOption, n): n zero-valued options (empty title, nil command).
ZeroOption == [Title |-> 0, Command |-> 0]
MakeOptions(n) == [k \in 1..n |-> ZeroOption]

\* s[lo:hi] of a Go slice.
Slice(s, lo, hi) == SubSeq(s, lo + 1, hi)

InsertMenuOption(opts, index, newOption) ==
    LET n == Len(opts)
        newOptions == MakeOptions(n + 1)
    IN  IF 0 <= index /\ index < n
        THEN LET a == Copy(Slice(newOptions, 0, index), Slice(opts, 0, index + 1))
                           \o Slice(newOptions, index, n + 1)
                 b == Copy(Slice(a, 0, index + 1), Slice(opts, index, n))
                           \o Slice(a, index + 1, n + 1)
             IN  [b EXCEPT ![index + 1] = newOption]
        ELSE [Copy(newOptions, opts) EXCEPT ![n + 1] = newOption]

\* The option list after appending options 1..n with MenuInsertLast.
RECURSIVE Appended(_)
Appended(n) ==
    IF n = 0 THEN <<>>
    ELSE InsertMenuOption(Appended(n - 1), MenuInsertLast, MenuOption(n))

----------------------------------------------------------------------------
(* Goroutines started by Enter *)

\* A task is a goroutine running MenuOption.ExecuteCommand: mo is the index
\* of the option the receiver expression was evaluated to, state is
\* "running" (inside mo.Command()), "sending" (blocked in ev <- ...) or
\* "done"; value is the UIEvent returned by the command.
\* goroutine is "go" for a goroutine of its own and "caller" when the work is
\* done by the goroutine that called HandleKey.
NewTask(mo, goroutine) ==
    [mo |-> mo, state |-> "running", value |-> 0, goroutine |-> goroutine]

\* The goroutine that calls HandleKey and Draw is alive and not inside a call.
CallerReady ==
    /\ ~panicked
    /\ \A t \in 1..Len(tasks) : tasks[t].goroutine = "caller" => tasks[t].state = "done"

----------------------------------------------------------------------------
(* CreateMenu *)

\* CreateMenu with the window cut to the options at creation.
CreateMenuClipped(height, mode, drawHelpBox, options) ==
    /\ Height = height
    /\ Mode = mode
    /\ DrawHelpBox = drawHelpBox
    /\ Options = options
    /\ activeIndex = 0
    /\ menuTop = 0
    /\ menuBottom = Min(height, Len(options))

\* CreateMenu followed by the InsertMenuOption calls that give it its options.
CreateMenu(height, mode, drawHelpBox, options) ==
    /\ Height = height
    /\ Mode = mode
    /\ DrawHelpBox = drawHelpBox
    /\ Options = options
    /\ activeIndex = 0
    /\ menuTop = 0
    /\ menuBottom = height

----------------------------------------------------------------------------
(* Menu.HandleKey, one operator per case of the switch.  Each one gives the *)
(* next value of the Menu fields, of the goroutines and of the return value *)

MenuFrame == UNCHANGED <<Options, Height, Mode>>

MenuArrowUp ==
    LET dec == activeIndex - 1
        idx == IF dec < 0 THEN 0 ELSE dec
        slide == idx = menuTop /\ idx > 0
    IN  /\ activeIndex' = idx
        /\ menuTop' = IF slide THEN menuTop - 1 ELSE menuTop
        /\ menuBottom' = IF slide THEN menuBottom - 1 ELSE menuBottom
        /\ eventConsumed' = TRUE
        /\ MenuFrame
        /\ UNCHANGED <<DrawHelpBox, goVars, panicked>>

\* Down without the clamp at the last option.
MenuArrowDownNoClamp ==
    LET idx == activeIndex + 1
        slide == idx = menuBottom - 1 /\ idx < Len(Options) - 1
    IN  /\ activeIndex' = idx
        /\ menuTop' = IF slide THEN menuTop + 1 ELSE menuTop
        /\ menuBottom' = IF slide THEN menuBottom + 1 ELSE menuBottom
        /\ eventConsumed' = TRUE
        /\ MenuFrame
        /\ UNCHANGED <<DrawHelpBox, goVars, panicked>>

\* Down sliding the window only when the selection would leave it.
MenuArrowDownLazy ==
    LET inc == activeIndex + 1
        idx == IF inc >= Len(Options) THEN Len(Options) - 1 ELSE inc
        slide == idx >= menuBottom
    IN  /\ activeIndex' = idx
        /\ menuTop' = IF slide THEN menuTop + 1 ELSE menuTop
        /\ menuBottom' = IF slide THEN menuBottom + 1 ELSE menuBottom
        /\ eventConsumed' = TRUE
        /\ MenuFrame
        /\ UNCHANGED <<DrawHelpBox, goVars, panicked>>

\* Down sliding only the bottom of the window.
MenuArrowDownGrow ==
    LET inc == activeIndex + 1
        idx == IF inc >= Len(Options) THEN Len(Options) - 1 ELSE inc
        slide == idx = menuBottom - 1 /\ idx < Len(Options) - 1
    IN  /\ activeIndex' = idx
        /\ menuTop' = menuTop
        /\ menuBottom' = IF slide THEN menuBottom + 1 ELSE menuBottom
        /\ eventConsumed' = TRUE
        /\ MenuFrame
        /\ UNCHANGED <<DrawHelpBox, goVars, panicked>>

MenuArrowDown ==
    LET inc == activeIndex + 1
        idx == IF inc >= Len(Options) THEN Len(Options) - 1 ELSE inc
        slide == idx = menuBottom - 1 /\ idx < Len(Options) - 1
    IN  /\ activeIndex' = idx
        /\ menuTop' = IF slide THEN menuTop + 1 ELSE menuTop
        /\ menuBottom' = IF slide THEN menuBottom + 1 ELSE menuBottom
        /\ eventConsumed' = TRUE
        /\ MenuFrame
        /\ UNCHANGED <<DrawHelpBox, goVars, panicked>>

MenuArrowLeft ==
    /\ activeIndex' =
          IF Mode = "MenuGrid" /\ activeIndex >= Len(Options) \div 2
          THEN activeIndex - (Len(Options) \div 2 + 1)
          ELSE activeIndex
    /\ eventConsumed' = TRUE
    /\ MenuFrame
    /\ UNCHANGED <<menuTop, menuBottom, DrawHelpBox, goVars, panicked>>

MenuArrowRight ==
    /\ activeIndex' =
          IF /\ Mode = "MenuGrid"
             /\ activeIndex <= Len(Options) \div 2
             /\ activeIndex + 2 < Len(Options)
          THEN activeIndex + (Len(Options) \div 2 + 1)
          ELSE activeIndex
    /\ eventConsumed' = TRUE
    /\ MenuFrame
    /\ UNCHANGED <<menuTop, menuBottom, DrawHelpBox, goVars, panicked>>

\* Enter calling ExecuteCommand in the caller's goroutine (no go statement).
MenuEnterSync ==
    IF InRange(Options, activeIndex)
    THEN /\ tasks' = Append(tasks, NewTask(activeIndex, "caller"))
         /\ eventConsumed' = TRUE
         /\ MenuFrame
         /\ UNCHANGED <<activeIndex, menuTop, menuBottom, DrawHelpBox,
                        hangs, results, panicked>>
    ELSE /\ panicked' = TRUE
         /\ MenuFrame
         /\ UNCHANGED <<activeIndex, menuTop, menuBottom, DrawHelpBox,
                        goVars, eventConsumed>>

\* go m.Options[m.activeIndex].ExecuteCommand(results): the receiver
\* &m.Options[m.activeIndex] is evaluated by the caller (an index out of
\* range panics there); the call itself runs in the new goroutine.
MenuEnter ==
    IF InRange(Options, activeIndex)
    THEN /\ tasks' = Append(tasks, NewTask(activeIndex, "go"))
         /\ eventConsumed' = TRUE
         /\ MenuFrame
         /\ UNCHANGED <<activeIndex, menuTop, menuBottom, DrawHelpBox,
                        hangs, results, panicked>>
    ELSE /\ panicked' = TRUE
         /\ MenuFrame
         /\ UNCHANGED <<activeIndex, menuTop, menuBottom, DrawHelpBox,
                        goVars, eventConsumed>>

MenuF1 ==
    /\ DrawHelpBox' = ~DrawHelpBox
    /\ eventConsumed' = TRUE
    /\ MenuFrame
    /\ UNCHANGED <<activeIndex, menuTop, menuBottom, goVars, panicked>>

\* for index, char := range "123456789": the position of ch, or -1.
DigitIndex(ch) ==
    IF \E k \in 1..Len(Digits) : Digits[k] = ch
    THEN (CHOOSE k \in 1..Len(Digits) : Digits[k] = ch) - 1
    ELSE -1

\* The default case taking a digit only when it names an option.
MenuDefaultChecked(ch) ==
    /\ activeIndex' = IF ch # "" /\ InRange(Options, DigitIndex(ch))
                      THEN DigitIndex(ch) ELSE activeIndex
    /\ eventConsumed' = (ch # "")
    /\ MenuFrame
    /\ UNCHANGED <<menuTop, menuBottom, DrawHelpBox, goVars, panicked>>

\* The default case; ch = "" stands for the rune 0.
MenuDefault(ch) ==
    /\ activeIndex' = IF ch # "" /\ DigitIndex(ch) >= 0 THEN DigitIndex(ch) ELSE activeIndex
    /\ eventConsumed' = (ch # "")
    /\ MenuFrame
    /\ UNCHANGED <<menuTop, menuBottom, DrawHelpBox, goVars, panicked>>

MenuHandleKey(key, ch) ==
    CASE key = "KeyArrowUp"    -> MenuArrowUp
      [] key = "KeyArrowDown"  -> MenuArrowDown
      [] key = "KeyArrowLeft"  -> MenuArrowLeft
      [] key = "KeyArrowRight" -> MenuArrowRight
      [] key = "KeyEnter"      -> MenuEnter
      [] key = "KeyF1"         -> MenuF1
      [] OTHER                 -> MenuDefault(ch)

----------------------------------------------------------------------------
(* Table: CreateTable, cellIsActive and Table.Draw *)

\* CreateTable with no labels: the cells are table.Columns slices of
\* table.Rows empty values.
CreateTable(width, height, columns, rows, showGrid, showNumbers, fg, bg) ==
    LET Rows_ == IF height < rows THEN height ELSE rows
    IN  [Width        |-> width,
         Height       |-> height,
         Columns      |-> columns,
         Rows         |-> Rows_,
         Fg           |-> fg,
         Bg           |-> bg,
         ShowGrid     |-> showGrid,
         ShowNumbers  |-> showNumbers,
         ActiveRow    |-> -1,
         ActiveColumn |-> -1,
         cells        |-> [c \in 1..columns |-> [r \in 1..Rows_ |-> ""]]]

\* A table nobody draws or writes to.
NoTable == CreateTable(0, 0, 0, 0, FALSE, FALSE, "ColorDefault", "ColorDefault")

\* The table t after t.SetCell(column, row, text), and what SetCell returns.
SetCellOk(t, column, row) ==
    ~(column >= t.Columns \/ row >= t.Rows \/ column < 0 \/ row < 0)
SetCellOf(t, column, row, text) ==
    IF SetCellOk(t, column, row)
    THEN [t EXCEPT !.cells[column + 1][row + 1] = text]
    ELSE t

\* cellIsActive matching a cell only on both of its coordinates.
cellIsActiveExact(active_col, active_row, current_col, current_row) ==
    active_col = current_col /\ active_row = current_row

cellIsActive(active_col, active_row, current_col, current_row) ==
    IF active_col = -1 /\ active_row = -1 THEN FALSE
    ELSE LET col == active_col = -1 \/ active_col = current_col
             row == active_row = -1 \/ active_row = current_row
         IN  col /\ row

\* Table.Draw divides by t.Columns and by t.Rows.
TableDrawPanics(t) == t.Columns = 0 \/ t.Rows = 0

\* The colours of a highlighted cell.
ActiveFg(t) == IF t.Bg = "ColorDefault" THEN "ColorWhite" ELSE t.Bg
ActiveBg(t) == IF t.Fg = "ColorDefault" THEN "ColorBlack" ELSE t.Fg

\* The text box Table.Draw draws for the k-th cell it visits (column by
\* column, the rows of a column from the top): its cell, its text (the value,
\* after the running number when ShowNumbers), its colours and its place.
CellDrawn(t, k, x, y) ==
    LET i == (k - 1) \div t.Rows
        j == (k - 1) % t.Rows
        cellWidth  == (t.Width + 2 * Len(t.cells)) \div t.Columns
        cellHeight == t.Height \div t.Rows
        active == cellIsActive(t.ActiveColumn, t.ActiveRow, i, j)
    IN  [column |-> i,
         row    |-> j,
         value  |-> t.cells[i + 1][j + 1],
         number |-> IF t.ShowNumbers THEN k ELSE 0,
         fg     |-> IF active THEN ActiveFg(t) ELSE t.Fg,
         bg     |-> IF active THEN ActiveBg(t) ELSE t.Bg,
         x      |-> x + i * cellWidth - i * 2,
         y      |-> y + j * cellHeight]

\* Table.Draw(x, y) of a table with columns and rows: the text boxes drawn,
\* in order; cells with an empty value are skipped.
NotSkipped(cell) == cell.value # ""
TableDrawn(t, x, y) ==
    SelectSeq([k \in 1..(t.Columns * t.Rows) |-> CellDrawn(t, k, x, y)], NotSkipped)

----------------------------------------------------------------------------
(* Menu.Draw *)

\* Draw setting menuBottom to the number of options whatever the height.
DrawBottomAlways == Len(Options)

\* menuBottom after the adjustment at the top of Draw.
DrawBottom == IF Len(Options) < Height THEN Len(Options) ELSE menuBottom

DrawCols == IF Mode = "MenuGrid" THEN 2 ELSE 1
DrawRows == IF Mode = "MenuGrid" THEN DrawBottom \div DrawCols + 1 ELSE DrawBottom

getIndexFromCoordinates(rows, col, row) == rows * col + row

\* The indices at which the cell-filling loop reads m.Options.
DrawReads ==
    { i \in { getIndexFromCoordinates(DrawRows, c, r) :
                  c \in 0..(DrawCols - 1), r \in menuTop..(DrawRows - 1) } :
        i < DrawBottom }

\* CreateTable(m.Width, m.menuBottom, cols, rows, ...): Rows is cut to the height.
TableRows == IF DrawBottom < DrawRows THEN DrawBottom ELSE DrawRows

\* Draw panics when the loop reads past the option list, when Table.Draw
\* divides t.Height by t.Rows = 0, or when the help box reads
\* m.Options[m.activeIndex] out of range.
DrawPanics ==
    \/ \E i \in DrawReads : ~InRange(Options, i)
    \/ TableRows = 0
    \/ DrawHelpBox /\ ~InRange(Options, activeIndex)

\* Go's % and /: the quotient is truncated towards zero and the remainder
\* has the sign of the dividend.
GoRem(a, b) == IF a >= 0 THEN a % b ELSE 0 - ((0 - a) % b)
GoQuo(a, b) == IF a >= 0 THEN a \div b ELSE 0 - ((0 - a) \div b)

\* getCoordinatesFromIndex(rows, index) as <<col, row>>.
getCoordinatesFromIndex(rows, index) ==
    LET row == GoRem(index, rows)
    IN  <<GoQuo(index - row, rows), row>>

\* The width and the colours the menu of the example is created with.
MenuWidth == 62
MenuFg == "ColorDefault"
MenuBg == "ColorDefault"

\* The title of an option as the text of a cell.
TitleText(option) == ToString(option.Title)

\* The table Draw creates and fills: cell (c, r) gets the title of option
\* rows*c + r for the rows from menuTop on, as long as that index is below
\* menuBottom and SetCell accepts the cell.
MenuTableFilled ==
    LET t == CreateTable(MenuWidth, DrawBottom, DrawCols, DrawRows, FALSE, TRUE,
                         MenuFg, MenuBg)
    IN  [t EXCEPT !.cells =
            [c \in 1..t.Columns |-> [r \in 1..t.Rows |->
                LET index == getIndexFromCoordinates(DrawRows, c - 1, r - 1)
                IN  IF /\ r - 1 >= menuTop
                       /\ r - 1 < DrawRows
                       /\ index < DrawBottom
                       /\ SetCellOk(t, c - 1, r - 1)
                       /\ InRange(Options, index)
                    THEN TitleText(At(Options, index))
                    ELSE ""]]]

\* The table with the active cell set from activeIndex.
MenuTable ==
    LET active == getCoordinatesFromIndex(DrawRows, activeIndex)
    IN  [MenuTableFilled EXCEPT !.ActiveColumn = active[1], !.ActiveRow = active[2]]

\* What Draw(0, 0) of a menu without header puts on the terminal: the table
\* drawn menuTop rows higher.
MenuDrawn == IF DrawPanics THEN <<>> ELSE TableDrawn(MenuTable, 0, 0 - menuTop)

MenuDraw ==
    /\ menuBottom' = DrawBottom
    /\ panicked' = DrawPanics
    /\ MenuFrame
    /\ UNCHANGED <<activeIndex, menuTop, DrawHelpBox, goVars, eventConsumed>>

----------------------------------------------------------------------------
(* MenuOption.ExecuteCommand in its goroutine: ev <- mo.Command() *)

\* The goroutine looking up m.Options[m.activeIndex] when it runs.
TaskRunLate(t) ==
    LET cmd == At(Options, activeIndex).Command
    IN  /\ ~panicked
        /\ tasks[t].state = "running"
        /\ InRange(Options, activeIndex)
        /\ cmd \notin hangs
        /\ tasks' = [tasks EXCEPT ![t].state = "sending", ![t].value = cmd]
        /\ UNCHANGED <<menuVars, hangs, results, eventConsumed, panicked>>

\* The commands run one after the other on a single worker.
TaskRunInOrder(t) ==
    LET cmd == At(Options, tasks[t].mo).Command
    IN  /\ ~panicked
        /\ tasks[t].state = "running"
        /\ \A u \in 1..(t - 1) : tasks[u].state = "done"
        /\ cmd \notin hangs
        /\ tasks' = [tasks EXCEPT ![t].state = "sending", ![t].value = cmd]
        /\ UNCHANGED <<menuVars, hangs, results, eventConsumed, panicked>>

\* mo.Command() returns: the command is read through the pointer taken at the
\* go statement.  A nil command panics; a command in hangs never returns.
TaskRun(t) ==
    LET cmd == At(Options, tasks[t].mo).Command
    IN  /\ ~panicked
        /\ tasks[t].state = "running"
        /\ cmd \notin hangs
        /\ IF cmd = 0
           THEN panicked' = TRUE /\ UNCHANGED tasks
           ELSE /\ tasks' = [tasks EXCEPT ![t].state = "sending", ![t].value = cmd]
                /\ UNCHANGED panicked
        /\ UNCHANGED <<menuVars, hangs, results, eventConsumed>>

\* The consumer receives from the unbuffered channel: one blocked sender
\* hands over its UIEvent and ends.
Receive(t) ==
    /\ ~panicked
    /\ tasks[t].state = "sending"
    /\ tasks' = [tasks EXCEPT ![t].state = "done"]
    /\ results' = Append(results, [ticket |-> t, value |-> tasks[t].value])
    /\ UNCHANGED <<menuVars, hangs, panicked, eventConsumed>>

----------------------------------------------------------------------------
(* UI: AddField, Draw, HandleInput *)

\* The widgets a field can hold here: the Menu, and a Popup (it draws itself
\* without touching any state and its HandleKey returns false).
Elements == {"Menu", "Popup"}

Field(x, y, element, hasFocus) ==
    [X |-> x, Y |-> y, Element |-> element, HasFocus |-> hasFocus]

UIAddField(element, x, y, hasFocus) ==
    LET newFields == [k \in 1..(Len(fields) + 1) |-> Field(0, 0, "", FALSE)]
    IN  fields' = [Copy(newFields, fields) EXCEPT ![Len(fields) + 1] = Field(x, y, element, hasFocus)]

\* Draw skipping the fields that do not have the focus.
RECURSIVE DrawFocusedFrom(_)
DrawFocusedFrom(i) ==
    IF i > Len(fields) THEN <<>>
    ELSE IF ~fields[i].HasFocus THEN DrawFocusedFrom(i + 1)
    ELSE <<<<"Draw", i, fields[i].X, fields[i].Y>>>>
            \o (IF fields[i].Element = "Menu" /\ DrawPanics THEN <<>> ELSE DrawFocusedFrom(i + 1))

\* The range loop of Draw: the Draw calls made for fields i..n, stopping
\* behind the first call that panics.
RECURSIVE DrawFrom(_)
DrawFrom(i) ==
    IF i > Len(fields) THEN <<>>
    ELSE <<<<"Draw", i, fields[i].X, fields[i].Y>>>>
            \o (IF fields[i].Element = "Menu" /\ DrawPanics THEN <<>> ELSE DrawFrom(i + 1))

HasMenu == \E i \in 1..Len(fields) : fields[i].Element = "Menu"

UIDraw ==
    /\ IF HasMenu
       THEN MenuDraw
       ELSE UNCHANGED <<menuVars, goVars, panicked, eventConsumed>>
    /\ surface' = <<<<"Clear", Fg, Bg>>>> \o DrawFrom(1)
                    \o (IF HasMenu /\ DrawPanics THEN <<>> ELSE <<<<"Flush">>>>)
    /\ calls' = <<>>
    /\ inputConsumed' = FALSE
    /\ UNCHANGED <<Fg, Bg, fields>>

\* HandleInput without the break: the last focused field decides.
RECURSIVE ScanFocusNoBreak(_)
ScanFocusNoBreak(i) ==
    IF i > Len(fields) THEN 0
    ELSE IF ScanFocusNoBreak(i + 1) # 0 THEN ScanFocusNoBreak(i + 1)
    ELSE IF fields[i].HasFocus THEN i
    ELSE 0

\* The range loop of HandleInput: the index of the field it stops at, 0 if
\* it runs to the end.
RECURSIVE ScanFocus(_)
ScanFocus(i) ==
    IF i > Len(fields) THEN 0
    ELSE IF fields[i].HasFocus THEN i
    ELSE ScanFocus(i + 1)

ElementHandleKey(element, key, ch) ==
    IF element = "Menu"
    THEN MenuHandleKey(key, ch)
    ELSE /\ eventConsumed' = FALSE
         /\ UNCHANGED <<menuVars, goVars, panicked>>

UIHandleInput(key, ch) ==
    LET i == ScanFocus(1)
    IN  /\ IF i = 0
           THEN /\ calls' = <<>>
                /\ inputConsumed' = FALSE
                /\ UNCHANGED <<menuVars, goVars, panicked, eventConsumed>>
           ELSE /\ calls' = <<i>>
                /\ ElementHandleKey(fields[i].Element, key, ch)
                /\ inputConsumed' = eventConsumed'
        /\ surface' = <<>>
        /\ UNCHANGED <<Fg, Bg, fields>>

----------------------------------------------------------------------------
(* The steps of the program *)

Op(op, key, ch) == [op |-> op, key |-> key, ch |-> ch]

\* The characters typed: the digits of the first option, of a later one and
\* of one past any option list used here, and a character that is no digit.
Chars == {"1", "3", "9", "a"}
\* The digits pressed while commands are in flight: the first option, and
\* one past any option list used here.
DispatchChars == {"1", "9"}

HandleKey(key, ch) ==
    /\ CallerReady
    /\ MenuHandleKey(key, ch)
    /\ lastOp' = Op("HandleKey", key, ch)
    /\ UNCHANGED loopVars
    /\ downs' = IF key = "KeyArrowDown" /\ downs >= 0 /\ downs < MaxDowns
                THEN downs + 1 ELSE -1
    /\ pressed' = IF key = "KeyEnter" /\ InRange(Options, activeIndex)
                  THEN Append(pressed, activeIndex) ELSE pressed
    /\ surface' = <<>>
    /\ UNCHANGED <<Fg, Bg, fields, calls, inputConsumed, widgetVars>>

\* The key events sent through the UI, and where fields are put.
UIEvents == {<<"KeyArrowUp", "">>, <<"KeyArrowDown", "">>, <<"KeyEnter", "">>,
             <<"KeyEsc", "">>, <<"", "2">>}
Positions == {<<0, 0>>, <<2, 16>>}

AddField ==
    \E element \in Elements, pos \in Positions, hasFocus \in BOOLEAN :
        /\ CallerReady
        /\ Len(fields) < MaxFields
        /\ UIAddField(element, pos[1], pos[2], hasFocus)
        /\ lastOp' = Op("AddField", "", "")
        /\ UNCHANGED loopVars
        /\ surface' = <<>>
        /\ calls' = <<>>
        /\ inputConsumed' = FALSE
        /\ UNCHANGED <<menuVars, goVars, panicked, eventConsumed, downs, pressed, Fg, Bg>>
        /\ UNCHANGED widgetVars

DrawUI ==
    /\ CallerReady
    /\ UIDraw
    /\ lastOp' = Op("UIDraw", "", "")
    /\ UNCHANGED loopVars
    /\ UNCHANGED <<downs, pressed, widgetVars>>

HandleInput ==
    \E ev \in UIEvents :
        /\ CallerReady
        /\ ev[1] = "KeyEnter" => Len(tasks) < MaxKeyEnters
        /\ UIHandleInput(ev[1], ev[2])
        /\ lastOp' = Op("HandleInput", ev[1], ev[2])
        /\ UNCHANGED loopVars
        /\ pressed' = IF Len(tasks') > Len(tasks)
                      THEN Append(pressed, activeIndex) ELSE pressed
        /\ UNCHANGED <<downs, widgetVars>>

KeyArrowUp == HandleKey("KeyArrowUp", "")
KeyArrowDown == HandleKey("KeyArrowDown", "")
KeyArrowLeft == HandleKey("KeyArrowLeft", "")
KeyArrowRight == HandleKey("KeyArrowRight", "")
KeyEnter == Len(tasks) < MaxKeyEnters /\ HandleKey("KeyEnter", "")
KeyEnterAgain == Len(tasks) < MaxEnters /\ HandleKey("KeyEnter", "")
KeyF1 == HandleKey("KeyF1", "")
KeyEsc == HandleKey("KeyEsc", "")
KeyChar == \E ch \in Chars : HandleKey("", ch)
KeyDigit == \E ch \in DispatchChars : HandleKey("", ch)

Draw ==
    /\ CallerReady
    /\ MenuDraw
    /\ surface' = MenuDrawn
    /\ lastOp' = Op("Draw", "", "")
    /\ UNCHANGED loopVars
    /\ UNCHANGED <<downs, pressed, Fg, Bg, fields, calls, inputConsumed, widgetVars>>

RunOf(t) ==
    /\ t \in 1..Len(tasks)
    /\ TaskRun(t)
    /\ lastOp' = Op("Run", "", "")
    /\ UNCHANGED loopVars
    /\ UNCHANGED <<downs, pressed, uiVars, widgetVars>>

RecvOf(t) ==
    /\ t \in 1..Len(tasks)
    /\ Receive(t)
    /\ lastOp' = Op("Recv", "", "")
    /\ UNCHANGED loopVars
    /\ UNCHANGED <<downs, pressed, uiVars, widgetVars>>

Run == \E t \in 1..MaxEnters : RunOf(t)
Recv == \E t \in 1..MaxEnters : RecvOf(t)

----------------------------------------------------------------------------
(* EditBox *)

\* A rune is its code point; a string is the sequence of its UTF-8 bytes
\* (code points below 0x800 are enough for the runes typed here).
Utf8(r) == IF r < 128 THEN <<r>> ELSE <<192 + (r \div 64), 128 + (r % 64)>>

\* string(eb.Value)
RECURSIVE StringOfRunes(_)
StringOfRunes(rs) ==
    IF rs = <<>> THEN <<>> ELSE Utf8(Head(rs)) \o StringOfRunes(Tail(rs))

\* []rune(value)
RECURSIVE RunesOfString(_)
RunesOfString(bs) ==
    IF bs = <<>> THEN <<>>
    ELSE IF Head(bs) < 128
         THEN <<Head(bs)>> \o RunesOfString(Tail(bs))
         ELSE <<(bs[1] - 192) * 64 + (bs[2] - 128)>>
                  \o RunesOfString(SubSeq(bs, 3, Len(bs)))

\* termbox.Size(): the width of the terminal.
ScreenWidth == 80

\* make([]rune, n)
MakeRunes(n) == [k \in 1..n |-> 0]

CreateEditBox(width, value, customMessageCode) ==
    [Width       |-> IF width = -1 THEN ScreenWidth ELSE width,
     Value       |-> IF Len(value) > 0
                     THEN Copy(MakeRunes(Len(value)), RunesOfString(value))
                     ELSE MakeRunes(0),
     CursorIndex |-> 0,
     CustomType  |-> customMessageCode]

\* insertCharacter putting every character in front of the buffer.
insertCharacterFront(dst, ch, index) ==
    CASE index <= Len(dst) -> <<ch>> \o dst
      [] OTHER             -> dst

\* insertCharacter is only called with index = eb.CursorIndex, which is never
\* negative.
insertCharacter(dst, ch, index) ==
    CASE index = Len(dst) -> Append(dst, ch)
      [] Len(dst) > index -> Slice(dst, 0, index) \o <<ch>> \o Slice(dst, index, Len(dst))
      [] OTHER            -> dst

\* removeCharacter taking out the character after the one asked for.
removeCharacterNext(dst, index) ==
    IF index >= 0 /\ index + 1 < Len(dst)
    THEN Slice(dst, 0, index + 1) \o Slice(dst, index + 2, Len(dst))
    ELSE dst

removeCharacter(dst, index) ==
    IF index >= 0 /\ index < Len(dst)
    THEN Slice(dst, 0, index) \o Slice(dst, index + 1, Len(dst))
    ELSE dst

setCursor(from, to, inputBoxLength) ==
    IF (from < to /\ from >= 0) \/ (from > to /\ to >= 0) THEN to ELSE from

\* The event built after the edit buffer has been cleared.
EditEventCleared ==
    [Type |-> "UIResultString", CustomType |-> eb.CustomType,
     Data |-> StringOfRunes(MakeRunes(0))]

\* The UIEvent built by Enter: Data is bytes.NewBufferString(string(eb.Value)).
EditEvent ==
    [Type |-> "UIResultString", CustomType |-> eb.CustomType,
     Data |-> StringOfRunes(eb.Value)]

\* n times insertCharacter(value, ch, index) at the same index.
RECURSIVE InsertTimes(_, _, _, _)
InsertTimes(n, value, ch, index) ==
    IF n = 0 THEN value
    ELSE InsertTimes(n - 1, insertCharacter(value, ch, index), ch, index)

\* The insert-and-advance of KeyTab (n = 4), KeySpace and the default case (n = 1).
EditInsert(n, ch) ==
    LET value == InsertTimes(n, eb.Value, ch, eb.CursorIndex)
    IN  eb' = [eb EXCEPT
                 !.Value = value,
                 !.CursorIndex = IF Len(eb.Value) < Len(value)
                                 THEN setCursor(eb.CursorIndex, eb.CursorIndex + n, Len(value))
                                 ELSE eb.CursorIndex]

\* EditBox.HandleKey up to its return or, on Enter, up to the send `ev <- event`,
\* where it waits for the channel's receiver.
EditBoxHandleKey(key, ch) ==
    /\ CASE key = "KeyEnter" ->
              /\ sending' = <<EditEvent>>
              /\ UNCHANGED <<eb, eventConsumed>>
         [] key = "KeyBackspace2" ->
              LET value == removeCharacter(eb.Value, eb.CursorIndex - 1)
              IN  /\ eb' = [eb EXCEPT
                              !.Value = value,
                              !.CursorIndex =
                                  IF Len(eb.Value) > Len(value)
                                  THEN setCursor(eb.CursorIndex, eb.CursorIndex - 1, Len(value))
                                  ELSE eb.CursorIndex]
                  /\ eventConsumed' = TRUE
                  /\ UNCHANGED sending
         [] key = "KeyDelete" ->
              /\ eb' = [eb EXCEPT !.Value = removeCharacter(eb.Value, eb.CursorIndex)]
              /\ eventConsumed' = TRUE
              /\ UNCHANGED sending
         [] key = "KeyArrowRight" ->
              /\ eb' = [eb EXCEPT !.CursorIndex =
                           setCursor(eb.CursorIndex, eb.CursorIndex + 1, Len(eb.Value))]
              /\ eventConsumed' = TRUE
              /\ UNCHANGED sending
         [] key = "KeyArrowLeft" ->
              /\ eb' = [eb EXCEPT !.CursorIndex =
                           setCursor(eb.CursorIndex, eb.CursorIndex - 1, Len(eb.Value))]
              /\ eventConsumed' = TRUE
              /\ UNCHANGED sending
         [] key = "KeyTab" ->
              /\ EditInsert(4, 32)
              /\ eventConsumed' = TRUE
              /\ UNCHANGED sending
         [] key = "KeySpace" ->
              /\ EditInsert(1, 32)
              /\ eventConsumed' = TRUE
              /\ UNCHANGED sending
         [] OTHER ->
              IF ch # 0
              THEN /\ EditInsert(1, ch)
                   /\ eventConsumed' = TRUE
                   /\ UNCHANGED sending
              ELSE /\ eventConsumed' = FALSE
                   /\ UNCHANGED <<eb, sending>>
    /\ UNCHANGED results

\* The receiver takes the event; HandleKey clears the edit buffer and returns.
EditBoxSent ==
    /\ sending # <<>>
    /\ results' = Append(results, sending[1])
    /\ sending' = <<>>
    /\ eb' = [eb EXCEPT !.Value = MakeRunes(0), !.CursorIndex = 0]
    /\ eventConsumed' = TRUE

\* The rune slice EditBox.Draw keeps when the value is longer than the box.
DrawValue ==
    IF Len(eb.Value) > eb.Width
    THEN Copy(MakeRunes(eb.Width),
              Slice(eb.Value, Len(eb.Value) - eb.Width - 1, Len(eb.Value)))
    ELSE eb.Value

\* EditBox.Draw(x, y): the text box shows "/> " and the value, the cursor is set.
EditBoxDraw(x, y) ==
    /\ eb' = [eb EXCEPT !.Value = DrawValue]
    /\ surface' = << <<"Text", StringOfRunes(<<47, 62, 32>> \o DrawValue)>>,
                     <<"SetCursor", x + eb.CursorIndex + 3, y + 2>> >>

\* The EditBox takes key events only while no HandleKey call is waiting to send.
EditReady == ~panicked /\ sending = <<>>

\* The runes typed: a two-byte one; KeySpace and KeyTab type the one-byte space.
EditChars == {233}
Inserts(key, ch) == key \in {"KeyTab", "KeySpace"} \/ (key = "" /\ ch # 0)

EditKey(key, ch) ==
    /\ EditReady
    /\ Inserts(key, ch) => Len(eb.Value) + (IF key = "KeyTab" THEN 4 ELSE 1) <= MaxValue
    /\ key = "KeyArrowRight" => eb.CursorIndex < MaxCursor
    /\ key = "KeyEnter" => (Len(results) < MaxSends /\ Len(eb.Value) <= MaxSent)
    /\ EditBoxHandleKey(key, ch)
    /\ lastOp' = [op |-> "EditBox.HandleKey", key |-> key, rune |-> ch]
    /\ UNCHANGED loopVars
    /\ typed' = IF typed # <<-1>> /\ Inserts(key, ch) /\ key # "KeyTab"
                THEN Append(typed, IF key = "KeySpace" THEN 32 ELSE ch)
                ELSE <<-1>>
    /\ surface' = <<>>
    /\ UNCHANGED <<menuVars, hangs, tasks, panicked, downs, pressed,
                   Fg, Bg, fields, calls, inputConsumed, tb, table, ok, declared>>

EditEnter == EditKey("KeyEnter", 0)
EditBackspace == EditKey("KeyBackspace2", 0)
EditDelete == EditKey("KeyDelete", 0)
EditArrowRight == EditKey("KeyArrowRight", 0)
EditArrowLeft == EditKey("KeyArrowLeft", 0)
EditTab == EditKey("KeyTab", 0)
EditSpace == EditKey("KeySpace", 0)
EditChar == \E ch \in EditChars : EditKey("", ch)
EditEsc == EditKey("KeyEsc", 0)

\* The letters a, b, c and x typed.
Letters == {97, 98, 99, 120}
EditLetter == \E ch \in Letters : EditKey("", ch)

EditSent ==
    /\ ~panicked
    /\ EditBoxSent
    /\ lastOp' = Op("EditBox.Sent", "KeyEnter", "")
    /\ UNCHANGED loopVars
    /\ typed' = <<-1>>
    /\ UNCHANGED <<menuVars, hangs, tasks, panicked, downs, pressed, uiVars, tb, table, ok, declared>>

EditDraw ==
    /\ EditReady
    /\ EditBoxDraw(0, 0)
    /\ lastOp' = Op("EditBox.Draw", "", "")
    /\ UNCHANGED loopVars
    /\ typed' = <<-1>>
    /\ UNCHANGED <<menuVars, goVars, panicked, eventConsumed, downs, pressed,
                   Fg, Bg, fields, calls, inputConsumed, sending, tb, table, ok, declared>>

----------------------------------------------------------------------------
(* TextBox *)

\* termbox.Size(): the height of the terminal.
ScreenHeight == 24

\* make([]string, n): n empty strings.
MakeStrings(n) == [k \in 1..n |-> <<>>]

\* CreateTextBox with a height of -1 or more.
CreateTextBox(width, height, withBorder, wrapText) ==
    LET Width_  == IF width = -1 \/ width > ScreenWidth THEN ScreenWidth ELSE width
        Height_ == IF height = -1 THEN ScreenHeight ELSE height
        newHeight == IF withBorder /\ Height_ > 2 THEN Height_ - 2 ELSE Height_
    IN  [Width       |-> Width_,
         Height      |-> Height_,
         HasBorder   |-> withBorder,
         WrapText    |-> wrapText,
         text        |-> MakeStrings(newHeight),
         textHeight  |-> 0,
         activeIndex |-> 0,
         scrolling   |-> TRUE]

\* make([]string, newHeight) panics when newHeight is negative.
CreateTextBoxPanics(height, withBorder) ==
    LET Height_ == IF height = -1 THEN ScreenHeight ELSE height
    IN  Height_ < 0

\* strings.Split(text, "\n"); the byte 10 is the line break. The k-th piece
\* lies between the (k-1)-th and the k-th line break.
Breaks(text) == {i \in 1..Len(text) : text[i] = 10}
BreakAt(text, k) ==
    IF k = 0 THEN 0
    ELSE IF k > Cardinality(Breaks(text)) THEN Len(text) + 1
    ELSE CHOOSE i \in Breaks(text) :
             Cardinality({j \in Breaks(text) : j < i}) = k - 1
Split(text) ==
    [k \in 1..(Cardinality(Breaks(text)) + 1) |->
        SubSeq(text, BreakAt(text, k - 1) + 1, BreakAt(text, k) - 1)]

\* strings.Replace(line, "\t", "    ", -1); the byte 9 is the tab. The i-th
\* byte of the line goes to position TabPos(line, i) of the result, and a tab
\* fills the three positions after it as well.
TabPos(line, i) == i + 3 * Cardinality({j \in 1..(i - 1) : line[j] = 9})
ExpandTabs(line) ==
    IF \A i \in 1..Len(line) : line[i] # 9 THEN line
    ELSE [k \in 1..(TabPos(line, Len(line) + 1) - 1) |->
            LET i == CHOOSE i \in 1..Len(line) :
                         /\ TabPos(line, i) <= k
                         /\ k < TabPos(line, i + 1)
            IN  IF line[i] = 9 THEN 32 ELSE line[i]]

\* The interior of the box as AddText computes it.
AddHeight == IF tb.HasBorder THEN tb.Height - 2 ELSE tb.Height
AddWidth  == IF tb.HasBorder THEN tb.Width - 2 ELSE tb.Width

\* The loop `for len(line) != 0` of a line that is wrapped: the lines collected
\* when it is left, from the lines collected before it.
RECURSIVE WrapLoop(_, _)
WrapLoop(line, lines) ==
    IF Len(line) = 0 THEN lines
    ELSE LET newLine == IF Len(line) < AddWidth THEN line
                        ELSE Slice(line, 0, AddWidth - 1)
             rest    == IF Len(line) < AddWidth THEN <<>>
                        ELSE Slice(line, AddWidth, Len(line))
         IN  IF ~tb.scrolling /\ Len(lines) + tb.textHeight <= AddHeight
             THEN WrapLoop(rest, Append(lines, newLine))
             ELSE lines

\* The loop over strArray passing over empty lines and going on after them.
RECURSIVE AddLoopSkipEmpty(_, _)
AddLoopSkipEmpty(strArray, lines) ==
    IF strArray = <<>> THEN lines
    ELSE LET line == ExpandTabs(Head(strArray))
         IN  IF Len(line) = 0 THEN AddLoopSkipEmpty(Tail(strArray), lines)
             ELSE IF tb.WrapText /\ Len(line) > AddWidth
                  THEN AddLoopSkipEmpty(Tail(strArray), WrapLoop(line, lines))
                  ELSE AddLoopSkipEmpty(Tail(strArray), Append(lines, line))

\* The loop over strArray: it ends at the first empty line.
RECURSIVE AddLoop(_, _)
AddLoop(strArray, lines) ==
    IF strArray = <<>> THEN lines
    ELSE LET line == ExpandTabs(Head(strArray))
         IN  IF Len(line) = 0 THEN lines
             ELSE IF tb.WrapText /\ Len(line) > AddWidth
                  THEN AddLoop(Tail(strArray), WrapLoop(line, lines))
                  ELSE AddLoop(Tail(strArray), Append(lines, line))

\* line[:width-1] of a line that is wrapped panics when width-1 is negative.
RECURSIVE AddPanics(_)
AddPanics(strArray) ==
    IF strArray = <<>> THEN FALSE
    ELSE LET line == ExpandTabs(Head(strArray))
         IN  IF Len(line) = 0 THEN FALSE
             ELSE \/ tb.WrapText /\ Len(line) > AddWidth /\ AddWidth - 1 < 0
                  \/ AddPanics(Tail(strArray))

TextBoxAddText(text) ==
    LET lines == AddLoop(Split(text), <<>>)
        linesHeight == Len(lines)
        temp == Copy(MakeStrings(linesHeight + tb.textHeight), tb.text)
    IN  IF AddPanics(Split(text))
        THEN panicked' = TRUE /\ UNCHANGED tb
        ELSE /\ tb' = IF linesHeight > 0
                      THEN [tb EXCEPT
                              !.text = Slice(temp, 0, tb.textHeight)
                                         \o Copy(Slice(temp, tb.textHeight, Len(temp)), lines),
                              !.textHeight = tb.textHeight + linesHeight]
                      ELSE tb
             /\ UNCHANGED panicked

TextBoxHandleKey(key) ==
    CASE key = "KeyArrowUp" ->
           /\ tb' = [tb EXCEPT !.activeIndex =
                        IF tb.activeIndex - 1 < 0 THEN 0 ELSE tb.activeIndex - 1]
           /\ eventConsumed' = TRUE
      [] key = "KeyArrowDown" ->
           /\ tb' = [tb EXCEPT !.activeIndex =
                        IF ~(tb.activeIndex + tb.Height >= tb.textHeight + 1)
                        THEN tb.activeIndex + 1 ELSE tb.activeIndex]
           /\ eventConsumed' = TRUE
      [] OTHER ->
           /\ eventConsumed' = FALSE
           /\ UNCHANGED tb

\* The texts given to AddText: one line, two lines, a line after an empty
\* line, a tab, a line longer than the narrow boxes, and 100 non-space
\* characters in one line.
Line100 == [k \in 1..100 |-> 120]
Texts == {<<120>>, <<120, 121, 10, 122>>, <<120, 10, 10, 121>>, <<9, 120>>,
          <<120, 121, 122, 120, 121>>, Line100}

AddText ==
    \E text \in Texts :
        /\ ~panicked
        /\ tb.textHeight < MaxLines
        /\ TextBoxAddText(text)
        /\ lastOp' = [op |-> "TextBox.AddText", text |-> text]
        /\ UNCHANGED loopVars
        /\ UNCHANGED <<menuVars, goVars, eventConsumed, downs, pressed, uiVars,
                       eb, sending, typed, table, ok, declared>>

TextKey(key) ==
    /\ ~panicked
    /\ TextBoxHandleKey(key)
    /\ lastOp' = Op("TextBox.HandleKey", key, "")
    /\ UNCHANGED loopVars
    /\ UNCHANGED <<menuVars, goVars, panicked, downs, pressed, uiVars,
                   eb, sending, typed, table, ok, declared>>

TextArrowUp == TextKey("KeyArrowUp")
TextArrowDown == TextKey("KeyArrowDown")
TextEsc == TextKey("KeyEsc")

----------------------------------------------------------------------------
(* Table *)

\* SetCell testing the coordinates against the cells of the other axis.
TableSetCellSwapped(column, row, text) ==
    IF column >= table.Rows \/ row >= table.Columns \/ column < 0 \/ row < 0
          \/ ~InRange(table.cells, column) \/ ~InRange(At(table.cells, column), row)
    THEN ok' = FALSE /\ UNCHANGED table
    ELSE /\ table' = [table EXCEPT !.cells[column + 1][row + 1] = text]
         /\ ok' = TRUE

TableSetCell(column, row, text) ==
    /\ table' = SetCellOf(table, column, row, text)
    /\ ok' = SetCellOk(table, column, row)

\* The values written to cells.
CellTexts == {"a", "b"}

SetCell ==
    \E column \in -1..MaxColumns, row \in -1..MaxRows, text \in CellTexts :
        /\ ~panicked
        /\ TableSetCell(column, row, text)
        /\ lastOp' = [op |-> "Table.SetCell", column |-> column, row |-> row, text |-> text]
        /\ UNCHANGED loopVars
        /\ surface' = <<>>
        /\ UNCHANGED <<menuVars, goVars, panicked, eventConsumed, downs, pressed,
                       Fg, Bg, fields, calls, inputConsumed, eb, sending, typed, tb,
                       declared>>

\* The columns, rows and height of the largest table drawn.
DrawnSize == 2

\* SetCell writing a title to a cell of a table that is drawn.
SetCellDrawn ==
    \E column \in 0..(DrawnSize - 1), row \in 0..(DrawnSize - 1) :
        /\ ~panicked
        /\ TableSetCell(column, row, "a")
        /\ lastOp' = Op("Table.SetCell", "", "")
        /\ UNCHANGED loopVars
        /\ surface' = <<>>
        /\ UNCHANGED <<menuVars, goVars, panicked, eventConsumed, downs, pressed,
                       Fg, Bg, fields, calls, inputConsumed, eb, sending, typed, tb,
                       declared>>

\* The caller assigning the exported fields table.ActiveColumn and
\* table.ActiveRow.
SetActive ==
    \E column \in -1..(DrawnSize - 1), row \in -1..(DrawnSize - 1) :
        /\ ~panicked
        /\ table' = [table EXCEPT !.ActiveColumn = column, !.ActiveRow = row]
        /\ lastOp' = Op("Table.SetActive", "", "")
        /\ UNCHANGED loopVars
        /\ surface' = <<>>
        /\ UNCHANGED <<menuVars, goVars, panicked, eventConsumed, downs, pressed,
                       Fg, Bg, fields, calls, inputConsumed, eb, sending, typed, tb,
                       ok, declared>>

\* table.Draw(0, 0)
TableDraw ==
    /\ ~panicked
    /\ panicked' = TableDrawPanics(table)
    /\ surface' = IF TableDrawPanics(table) THEN <<>> ELSE TableDrawn(table, 0, 0)
    /\ lastOp' = Op("Table.Draw", "", "")
    /\ UNCHANGED loopVars
    /\ UNCHANGED <<menuVars, goVars, eventConsumed, downs, pressed,
                   Fg, Bg, fields, calls, inputConsumed, widgetVars>>

----------------------------------------------------------------------------
(* Menu.InsertMenuOption *)

\* The option inserted into a list of n options: one that is not in the list.
FreshOption(n) == MenuOption(10 + n)

InsertOption ==
    \E index \in (MenuInsertLast - 1)..MaxInsert :
        /\ CallerReady
        /\ Len(Options) < MaxInsert
        /\ Options' = InsertMenuOption(Options, index, FreshOption(Len(Options)))
        /\ lastOp' = [op |-> "InsertMenuOption", index |-> index]
        /\ UNCHANGED loopVars
        /\ downs' = -1
        /\ UNCHANGED <<Height, Mode, DrawHelpBox, activeIndex, menuTop, menuBottom,
                       goVars, panicked, eventConsumed, pressed, uiVars, widgetVars>>

----------------------------------------------------------------------------
(* Menu.RemoveMenuOption *)

\* m.Options[index:] and m.Options[index+1:] panic for an index outside the
\* slice.
RemovePanics(opts, index) == index < 0 \/ index + 1 > Len(opts)

\* copy(m.Options[index:], m.Options[index+1:]), then m.Options[:len-1].
RemoveMenuOption(opts, index) ==
    LET copied == Slice(opts, 0, index)
                    \o Copy(Slice(opts, index, Len(opts)), Slice(opts, index + 1, Len(opts)))
    IN  Slice(copied, 0, Len(opts) - 1)

RemoveOption ==
    \E index \in -1..MaxOptions :
        /\ CallerReady
        /\ IF RemovePanics(Options, index)
           THEN panicked' = TRUE /\ UNCHANGED Options
           ELSE /\ Options' = RemoveMenuOption(Options, index)
                /\ UNCHANGED panicked
        /\ lastOp' = [op |-> "RemoveMenuOption", index |-> index]
        /\ downs' = -1
        /\ surface' = <<>>
        /\ UNCHANGED <<Height, Mode, DrawHelpBox, activeIndex, menuTop, menuBottom,
                       goVars, eventConsumed, pressed, Fg, Bg, fields, calls,
                       inputConsumed, widgetVars, loopVars>>

----------------------------------------------------------------------------
(* main of the menu example: the loop around ui.Draw and the select *)

\* The pollEvent() calls made before the terminal falls silent.
MaxPolls == 3

\* What termbox.PollEvent returns: a key, or the resize of the terminal.
PollEvents ==
    { [Type |-> "EventKey", Key |-> "KeyEnter"],
      [Type |-> "EventKey", Key |-> "KeyArrowDown"],
      [Type |-> "EventKey", Key |-> "KeyEsc"],
      [Type |-> "EventResize", Key |-> ""] }

\* pollEvent(): a channel of its own and a goroutine that sends the next
\* terminal event on it.
NewPoll == [state |-> "polling", event |-> [Type |-> "", Key |-> ""]]

\* The event a Button sends on Enter.
ButtonEvent == [Type |-> "UIResultUint16", CustomType |-> 0, Data |-> <<>>]

\* The element of the field that has the focus.
FocusedElement == fields[ScanFocus(1)].Element

\* The channel the select of this iteration receives polled events from: the
\* one made by the last pollEvent() call.
Selected == Len(polls)

\* if refresh { ui = buildUserInterface(); refresh = false }: the fields are
\* created anew, the menu with the state CreateMenu gives it.
LoopBuild ==
    /\ ~panicked
    /\ mainpc = "top"
    /\ refresh
    /\ refresh' = FALSE
    /\ IF HasMenu
       THEN /\ activeIndex' = 0
            /\ menuTop' = 0
            /\ menuBottom' = Height
            /\ DrawHelpBox' = FALSE
            /\ MenuFrame
       ELSE UNCHANGED menuVars
    /\ surface' = <<>>
    /\ calls' = <<>>
    /\ lastOp' = Op("buildUserInterface", "", "")
    /\ UNCHANGED <<goVars, panicked, eventConsumed, downs, pressed, Fg, Bg, fields,
                   inputConsumed, widgetVars, mainpc, polls>>

\* ui.Draw(), then the select is entered: pollEvent() is called for its
\* second case.
LoopDraw ==
    /\ ~panicked
    /\ mainpc = "top"
    /\ ~refresh
    /\ Len(polls) < MaxPolls
    /\ UIDraw
    /\ IF HasMenu /\ DrawPanics
       THEN UNCHANGED <<mainpc, polls>>
       ELSE /\ polls' = Append(polls, NewPoll)
            /\ mainpc' = "select"
    /\ lastOp' = Op("main.Draw", "", "")
    /\ UNCHANGED <<downs, pressed, widgetVars, refresh>>

\* termbox.PollEvent() returns in one of the goroutines waiting in it; the
\* goroutine goes on to send the event on its channel.
PollReturn ==
    \E p \in 1..MaxPolls, e \in PollEvents :
        /\ ~panicked
        /\ mainpc # "exit"
        /\ p <= Len(polls)
        /\ polls[p].state = "polling"
        /\ polls' = [polls EXCEPT ![p] = [state |-> "sending", event |-> e]]
        /\ lastOp' = Op("PollEvent", e.Key, "")
        /\ UNCHANGED <<menuVars, goVars, panicked, eventConsumed, downs, pressed,
                       uiVars, widgetVars, mainpc, refresh>>

\* case ev := <-pollEvent(): the select receives the event polled by the
\* goroutine of this iteration.
Polled(e) ==
    /\ ~panicked
    /\ mainpc = "select"
    /\ polls[Selected].state = "sending"
    /\ polls[Selected].event = e
    /\ polls' = [polls EXCEPT ![Selected].state = "done"]

\* case termbox.KeyEsc: break loop
LoopExit ==
    \E e \in PollEvents :
        /\ Polled(e)
        /\ e.Type = "EventKey" /\ e.Key = "KeyEsc"
        /\ mainpc' = "exit"
        /\ lastOp' = Op("main.Exit", e.Key, "")
        /\ UNCHANGED <<menuVars, goVars, panicked, eventConsumed, downs, pressed,
                       uiVars, widgetVars, refresh>>

\* case termbox.EventResize: refresh = true
LoopResize ==
    \E e \in PollEvents :
        /\ Polled(e)
        /\ e.Type = "EventResize"
        /\ refresh' = TRUE
        /\ mainpc' = "top"
        /\ lastOp' = Op("main.Resize", "", "")
        /\ UNCHANGED <<menuVars, goVars, panicked, eventConsumed, downs, pressed,
                       uiVars, widgetVars>>

\* default: ui.HandleInput(ev.Key, ev.Ch, inputEvent) with the focus on the
\* Menu: Enter starts the goroutine that will send the result.
LoopKeyMenu ==
    \E e \in PollEvents :
        /\ Polled(e)
        /\ e.Type = "EventKey" /\ e.Key # "KeyEsc"
        /\ FocusedElement = "Menu"
        /\ UIHandleInput(e.Key, "")
        /\ mainpc' = "top"
        /\ pressed' = IF Len(tasks') > Len(tasks)
                      THEN Append(pressed, activeIndex) ELSE pressed
        /\ lastOp' = Op("main.HandleInput", e.Key, "")
        /\ UNCHANGED <<downs, widgetVars, refresh>>

\* ui.HandleInput with the focus on the EditBox: on Enter HandleKey sends on
\* inputEvent and main waits inside HandleInput for a receiver.
LoopKeyEdit ==
    \E e \in PollEvents :
        /\ Polled(e)
        /\ e.Type = "EventKey" /\ e.Key # "KeyEsc"
        /\ FocusedElement = "EditBox"
        /\ EditBoxHandleKey(e.Key, 0)
        /\ calls' = <<ScanFocus(1)>>
        /\ IF e.Key = "KeyEnter"
           THEN mainpc' = "HandleInput" /\ UNCHANGED inputConsumed
           ELSE mainpc' = "top" /\ inputConsumed' = eventConsumed'
        /\ surface' = <<>>
        /\ lastOp' = Op("main.HandleInput", e.Key, "")
        /\ UNCHANGED <<menuVars, hangs, tasks, panicked, downs, pressed, Fg, Bg,
                       fields, typed, tb, table, ok, declared, refresh>>

\* ui.HandleInput with the focus on a Button: on Enter HandleKey sends
\* b.Event on inputEvent, any other key returns false.
LoopKeyButton ==
    \E e \in PollEvents :
        /\ Polled(e)
        /\ e.Type = "EventKey" /\ e.Key # "KeyEsc"
        /\ FocusedElement = "Button"
        /\ calls' = <<ScanFocus(1)>>
        /\ IF e.Key = "KeyEnter"
           THEN /\ sending' = <<ButtonEvent>>
                /\ mainpc' = "HandleInput"
                /\ UNCHANGED <<eventConsumed, inputConsumed>>
           ELSE /\ eventConsumed' = FALSE
                /\ inputConsumed' = FALSE
                /\ mainpc' = "top"
                /\ UNCHANGED sending
        /\ surface' = <<>>
        /\ lastOp' = Op("main.HandleInput", e.Key, "")
        /\ UNCHANGED <<menuVars, goVars, panicked, downs, pressed, Fg, Bg,
                       fields, eb, typed, tb, table, ok, declared, refresh>>

\* case event := <-inputEvent: the select receives the result a menu command's
\* goroutine is sending; the poll of this iteration is left behind.
\* handleMenuResult picks the menu and the colours of the next
\* buildUserInterface, which are not part of this model.
LoopResult ==
    \E t \in 1..MaxPolls :
        /\ mainpc = "select"
        /\ t <= Len(tasks)
        /\ Receive(t)
        /\ refresh' = TRUE
        /\ mainpc' = "top"
        /\ lastOp' = Op("main.Result", "", "")
        /\ UNCHANGED <<downs, pressed, uiVars, widgetVars, polls>>

\* The goroutines started by Enter run their commands.
LoopRun == \E t \in 1..MaxPolls : RunOf(t)

----------------------------------------------------------------------------
(* Specifications *)

Modes == {"MenuList", "MenuGrid"}

InitRun ==
    /\ tasks = <<>>
    /\ results = <<>>
    /\ panicked = FALSE
    /\ eventConsumed = FALSE
    /\ lastOp = Op("Init", "", "")
    /\ downs = 0
    /\ pressed = <<>>

\* No main loop runs: the widgets are driven directly.
InitNoLoop ==
    /\ mainpc = "none"
    /\ polls = <<>>
    /\ refresh = FALSE

\* var ui UI: the zero value, no field added.
InitNoFields ==
    /\ Fg = "ColorDefault"
    /\ Bg = "ColorDefault"
    /\ fields = <<>>
    /\ surface = <<>>
    /\ calls = <<>>
    /\ inputConsumed = FALSE

\* No widget besides the menu is used: the other widgets are of size zero.
InitNoWidgets ==
    /\ eb = CreateEditBox(0, <<>>, 0)
    /\ sending = <<>>
    /\ typed = <<>>
    /\ tb = CreateTextBox(0, 0, FALSE, FALSE)
    /\ table = NoTable
    /\ ok = FALSE
    /\ declared = <<0, 0>>

\* The menu example at the start of main, with the Menu, an EditBox or a
\* Button as the focused field below the headline box.
LoopFocus == {"Menu", "EditBox", "Button"}

InitLoop ==
    /\ CreateMenu(DispatchHeight, "MenuList", FALSE, Appended(DispatchOptions))
    /\ hangs = {}
    /\ InitRun
    /\ Fg = "ColorDefault"
    /\ Bg = "ColorDefault"
    /\ \E focus \in LoopFocus :
          fields = <<Field(14, 0, "TextBox", FALSE), Field(2, 16, focus, TRUE)>>
    /\ surface = <<>>
    /\ calls = <<>>
    /\ inputConsumed = FALSE
    /\ eb = CreateEditBox(MaxWidth, <<>>, 7)
    /\ sending = <<>>
    /\ typed = <<-1>>
    /\ tb = CreateTextBox(0, 0, FALSE, FALSE)
    /\ table = NoTable
    /\ ok = FALSE
    /\ declared = <<0, 0>>
    /\ mainpc = "top"
    /\ polls = <<>>
    /\ refresh = TRUE

NextLoop ==
    \/ LoopBuild \/ LoopDraw \/ PollReturn
    \/ LoopExit \/ LoopResize \/ LoopKeyMenu \/ LoopKeyEdit \/ LoopKeyButton
    \/ LoopResult \/ LoopRun

\* Every goroutine that can take a step eventually takes one.
SpecLoop == InitLoop /\ [][NextLoop]_vars /\ WF_vars(NextLoop)

\* A menu of any height and mode with options appended, driven by Up/Down and Draw.
InitNav ==
    /\ \E h \in 0..MaxHeight, n \in 0..MaxOptions, mode \in Modes, help \in BOOLEAN :
          CreateMenu(h, mode, help, Appended(n))
    /\ hangs = {}
    /\ InitRun
    /\ InitNoFields
    /\ InitNoLoop
    /\ InitNoWidgets

NextNav == KeyArrowUp \/ KeyArrowDown \/ Draw

SpecNav == InitNav /\ [][NextNav]_vars

\* A menu created without the help box (F1 switches it on), driven by every
\* key event.
InitKeys ==
    /\ \E h \in 0..MaxHeight, n \in 0..MaxOptions, mode \in Modes :
          CreateMenu(h, mode, FALSE, Appended(n))
    /\ hangs = {}
    /\ InitRun
    /\ InitNoFields
    /\ InitNoLoop
    /\ InitNoWidgets

NextKeys ==
    \/ KeyArrowUp \/ KeyArrowDown \/ KeyArrowLeft \/ KeyArrowRight
    \/ KeyEnter \/ KeyF1 \/ KeyEsc \/ KeyChar
    \/ Draw \/ Run \/ Recv

SpecKeys == InitKeys /\ [][NextKeys]_vars

\* A List menu of which at most one command hangs, with the goroutines scheduled fairly
\* and a consumer that keeps receiving from the result channel.
InitDispatch ==
    /\ \E h \in 1..DispatchHeight, n \in 1..DispatchOptions :
          /\ CreateMenu(h, "MenuList", FALSE, Appended(n))
          /\ hangs \in {{}} \cup {{c} : c \in 1..n}
    /\ InitRun
    /\ InitNoFields
    /\ InitNoLoop
    /\ InitNoWidgets

NextDispatch ==
    \/ KeyArrowDown \/ KeyEnterAgain \/ KeyDigit
    \/ Run \/ Recv

Fairness ==
    \A t \in 1..MaxEnters : WF_vars(RunOf(t)) /\ WF_vars(RecvOf(t))

SpecDispatch == InitDispatch /\ [][NextDispatch]_vars /\ Fairness

\* A UI holding Popups and the Menu in up to MaxFields fields.
Colors == {<<"ColorDefault", "ColorDefault">>, <<"ColorRed", "ColorBlue">>}

InitUI ==
    /\ \E h \in 1..DispatchHeight, n \in 0..UIOptions :
          CreateMenu(h, "MenuList", FALSE, Appended(n))
    /\ hangs = {}
    /\ InitRun
    /\ \E c \in Colors : Fg = c[1] /\ Bg = c[2]
    /\ fields = <<>>
    /\ surface = <<>>
    /\ calls = <<>>
    /\ inputConsumed = FALSE
    /\ InitNoLoop
    /\ InitNoWidgets

NextUI == AddField \/ DrawUI \/ HandleInput

SpecUI == InitUI /\ [][NextUI]_vars

\* An EditBox driven by key events; the receiver of its channel takes what is sent.
InitEdit ==
    /\ CreateMenu(0, "MenuList", FALSE, <<>>)
    /\ hangs = {}
    /\ InitRun
    /\ InitNoFields
    /\ InitNoLoop
    /\ \E width \in 1..MaxWidth, value \in {<<>>, <<32>>} :
          /\ eb = CreateEditBox(width, value, 7)
          /\ typed = IF value = <<>> THEN <<>> ELSE <<-1>>
    /\ sending = <<>>
    /\ tb = CreateTextBox(0, 0, FALSE, FALSE)
    /\ table = NoTable
    /\ ok = FALSE
    /\ declared = <<0, 0>>

NextEdit ==
    \/ EditEnter \/ EditBackspace \/ EditDelete \/ EditArrowRight \/ EditArrowLeft
    \/ EditTab \/ EditSpace \/ EditChar \/ EditEsc
    \/ EditSent

SpecEdit == InitEdit /\ [][NextEdit]_vars

\* An empty EditBox in which letters are typed and removed and the cursor is
\* moved.
InitEditKeys ==
    /\ CreateMenu(0, "MenuList", FALSE, <<>>)
    /\ hangs = {}
    /\ InitRun
    /\ InitNoFields
    /\ InitNoLoop
    /\ eb = CreateEditBox(MaxWidth, <<>>, 7)
    /\ typed = <<-1>>
    /\ sending = <<>>
    /\ tb = CreateTextBox(0, 0, FALSE, FALSE)
    /\ table = NoTable
    /\ ok = FALSE
    /\ declared = <<0, 0>>

NextEditKeys == EditLetter \/ EditBackspace \/ EditArrowLeft \/ EditArrowRight

SpecEditKeys == InitEditKeys /\ [][NextEditKeys]_vars

\* An EditBox that is typed into and drawn.
NextEditDraw == EditChar \/ EditSpace \/ EditArrowLeft \/ EditDraw

SpecEditDraw == InitEdit /\ [][NextEditDraw]_vars

\* A TextBox given text and scrolled.
TextWidths == {1, 3, 40}

InitText ==
    /\ CreateMenu(0, "MenuList", FALSE, <<>>)
    /\ hangs = {}
    /\ InitRun
    /\ InitNoFields
    /\ InitNoLoop
    /\ \E width \in TextWidths, height \in 1..MaxTextHeight,
          withBorder \in BOOLEAN, wrapText \in BOOLEAN :
          tb = CreateTextBox(width, height, withBorder, wrapText)
    /\ eb = CreateEditBox(0, <<>>, 0)
    /\ sending = <<>>
    /\ typed = <<>>
    /\ table = NoTable
    /\ ok = FALSE
    /\ declared = <<0, 0>>

\* The widths and heights asked of CreateTextBox: sentinels, other negative
\* values, sizes within the terminal and sizes beyond it.
AskedWidths == {-2, -1, 3, ScreenWidth + 1}
AskedHeights == {-2, -1, 2, ScreenHeight + 1}

\* A TextBox created with any of these dimensions; declared holds the
\* dimensions asked for.
InitSizes ==
    /\ CreateMenu(0, "MenuList", FALSE, <<>>)
    /\ hangs = {}
    /\ tasks = <<>>
    /\ results = <<>>
    /\ eventConsumed = FALSE
    /\ lastOp = Op("Init", "", "")
    /\ downs = 0
    /\ pressed = <<>>
    /\ InitNoFields
    /\ InitNoLoop
    /\ \E width \in AskedWidths, height \in AskedHeights,
          withBorder \in BOOLEAN, wrapText \in BOOLEAN :
          /\ panicked = CreateTextBoxPanics(height, withBorder)
          /\ tb = IF CreateTextBoxPanics(height, withBorder)
                  THEN CreateTextBox(0, 0, FALSE, FALSE)
                  ELSE CreateTextBox(width, height, withBorder, wrapText)
          /\ declared = <<width, height>>
    /\ eb = CreateEditBox(0, <<>>, 0)
    /\ sending = <<>>
    /\ typed = <<>>
    /\ table = NoTable
    /\ ok = FALSE

NextText == AddText \/ TextArrowUp \/ TextArrowDown \/ TextEsc

SpecText == InitText /\ [][NextText]_vars

SpecSizes == InitSizes /\ [][NextText]_vars

\* A Table created with any height, columns and rows, and written to.
InitTable ==
    /\ CreateMenu(0, "MenuList", FALSE, <<>>)
    /\ hangs = {}
    /\ InitRun
    /\ InitNoFields
    /\ InitNoLoop
    /\ \E height \in 0..MaxTableHeight, columns \in 0..MaxColumns, rows \in 0..MaxRows :
          /\ table = CreateTable(10, height, columns, rows, FALSE, FALSE, "ColorDefault", "ColorDefault")
          /\ declared = <<columns, rows>>
    /\ ok = FALSE
    /\ eb = CreateEditBox(0, <<>>, 0)
    /\ sending = <<>>
    /\ typed = <<>>
    /\ tb = CreateTextBox(0, 0, FALSE, FALSE)

NextTable == SetCell

SpecTable == InitTable /\ [][NextTable]_vars

\* The foreground and background colours tables are created with.
TableColors == Colors \cup {<<"ColorRed", "ColorDefault">>}

\* A table of up to DrawnSize columns and DrawnSize rows, filled, given an
\* active cell, row or column, and drawn.
InitTableDraw ==
    /\ CreateMenu(0, "MenuList", FALSE, <<>>)
    /\ hangs = {}
    /\ InitRun
    /\ InitNoFields
    /\ InitNoLoop
    /\ \E columns \in 0..DrawnSize, rows \in 0..DrawnSize,
          showNumbers \in BOOLEAN, colors \in TableColors :
          /\ table = CreateTable(10, DrawnSize, columns, rows, FALSE, showNumbers,
                                 colors[1], colors[2])
          /\ declared = <<columns, rows>>
    /\ ok = FALSE
    /\ eb = CreateEditBox(0, <<>>, 0)
    /\ sending = <<>>
    /\ typed = <<>>
    /\ tb = CreateTextBox(0, 0, FALSE, FALSE)

NextTableDraw == SetCellDrawn \/ SetActive \/ TableDraw

SpecTableDraw == InitTableDraw /\ [][NextTableDraw]_vars

\* A menu whose option list is inserted into between key events.
InitInsert ==
    /\ \E h \in 0..MaxHeight, n \in 0..MaxOptions, mode \in Modes :
          CreateMenu(h, mode, FALSE, Appended(n))
    /\ hangs = {}
    /\ InitRun
    /\ InitNoFields
    /\ InitNoLoop
    /\ InitNoWidgets

NextInsert == InsertOption \/ KeyArrowDown

SpecInsert == InitInsert /\ [][NextInsert]_vars

\* A menu from which options are removed between Up and Down keys and Draw
\* calls.
NextRemove == RemoveOption \/ KeyArrowUp \/ KeyArrowDown \/ Draw

SpecRemove == InitNav /\ [][NextRemove]_vars

----------------------------------------------------------------------------
(* Properties *)

IsKey(op, key) == op.op = "HandleKey" /\ op.key = key

\* C1: in a List menu of height >= 1 with at least one option, after any
\* Up/Down keys and Draw calls the active option is inside the window:
\* menuTop <= activeIndex < menuBottom.
C1_ActiveInsideWindow ==
    (Mode = "MenuList" /\ Height >= 1 /\ Len(Options) >= 1)
        => (menuTop <= activeIndex /\ activeIndex < menuBottom)

ScenarioABC == Mode = "MenuList" /\ Height = 2 /\ Len(Options) = 3

C3_IndexInRange ==
    /\ [](Len(Options) >= 1 => InRange(Options, activeIndex))
    /\ [][Len(Options) >= 1 =>
            /\ (IsKey(lastOp', "KeyArrowUp") /\ activeIndex = 0) => activeIndex' = 0
            /\ (IsKey(lastOp', "KeyArrowDown") /\ activeIndex = Len(Options) - 1)
                   => activeIndex' = activeIndex]_vars

\* Down was pressed once more than there are options below the first one.
C3_DownAtLastOption ==
    /\ Len(Options) >= 2
    /\ downs = Len(Options)
    /\ activeIndex = Len(Options) - 1
    /\ IsKey(lastOp, "KeyArrowDown")

\* C4: with at least one option, after any key events the selection is a
\* valid option index: 0 <= activeIndex < len(Options).
C4_SelectionValid ==
    Len(Options) >= 1 => InRange(Options, activeIndex)

\* C5: no key event ends in a run-time panic.
C5_NoPanicOnKey ==
    lastOp.op = "HandleKey" => ~panicked

\* C6: Enter returns to its caller with the command still unfinished and
\* nothing received from the channel; the caller is free to handle the next
\* key event.
C6_EnterDoesNotWait ==
    [][(IsKey(lastOp', "KeyEnter") /\ ~panicked') =>
          /\ CallerReady'
          /\ Len(tasks') = Len(tasks) + 1
          /\ tasks'[Len(tasks')].state = "running"
          /\ results' = results]_vars

\* A key other than Enter was handled while a command was still running and
\* no event had been received.
C6_KeyHandledWhileCommandRuns ==
    /\ lastOp.op = "HandleKey" /\ lastOp.key # "KeyEnter"
    /\ ~panicked
    /\ results = <<>>
    /\ \E t \in 1..Len(tasks) : tasks[t].state = "running"

Dispatched(t) == t <= Len(pressed)
Expected(t) == At(Options, pressed[t]).Command
Deliveries(t) == { k \in 1..Len(results) : results[k].ticket = t }
Returns(t) == Dispatched(t) /\ Expected(t) \notin hangs

\* C7: every Enter that started a command which returns leads to exactly one
\* UIEvent received from the channel, the value returned by the command of
\* the option that was active when Enter was pressed (unless a panic has
\* ended the program and with it the consumer).
C7_OneEventPerEnter ==
    /\ [](\A t \in 1..Len(pressed) :
            /\ Cardinality(Deliveries(t)) <= 1
            /\ \A k \in Deliveries(t) : results[k].value = Expected(t))
    /\ \A t \in 1..MaxEnters :
          Returns(t) ~> (panicked \/ Cardinality(Deliveries(t)) = 1)

\* An event was received after the selection had moved away from the option
\* whose command produced it.
C7_DeliveredAfterNavigation ==
    \E k \in 1..Len(results) :
        /\ results[k].value = Expected(results[k].ticket)
        /\ activeIndex # pressed[results[k].ticket]
        /\ InRange(Options, activeIndex)

HungTask(h) ==
    /\ h <= Len(tasks)
    /\ tasks[h].state = "running"
    /\ At(Options, tasks[h].mo).Command \in hangs

\* C8: while a command hangs the Menu keeps handling keys, and every other
\* command that returns, started before or after it, still has its event
\* received (unless a panic has ended the program).
C8_HungCommandStallsOnlyItself ==
    /\ [](\A h \in 1..MaxEnters : HungTask(h) => (panicked \/ CallerReady))
    /\ \A h \in 1..MaxEnters : \A t \in (1..MaxEnters) \ {h} :
          (HungTask(h) /\ Returns(t)) ~> (panicked \/ Cardinality(Deliveries(t)) = 1)

\* The first command hangs and the event of the second one was received.
C8_DeliveredBehindHungCommand ==
    HungTask(1) /\ Cardinality(Deliveries(2)) = 1 /\ ~panicked

Focused == { i \in 1..Len(fields) : fields[i].HasFocus }

C10_ClearDrawAllFlush ==
    lastOp.op = "UIDraw" =>
        /\ Len(surface) >= 1
        /\ surface[1] = <<"Clear", Fg, Bg>>
        /\ \A k \in 2..Len(surface) : surface[k][1] # "Clear"
        /\ \A k \in 1..(Len(surface) - 1) : surface[k][1] # "Flush"
        /\ \A k \in 1..Len(surface) :
              surface[k][1] = "Draw" =>
                  /\ k - 1 \in 1..Len(fields)
                  /\ surface[k] = <<"Draw", k - 1, fields[k - 1].X, fields[k - 1].Y>>
        /\ ~panicked =>
              /\ Len(surface) = Len(fields) + 2
              /\ \A i \in 1..Len(fields) : surface[i + 1][1] = "Draw"
              /\ surface[Len(surface)] = <<"Flush">>

\* Two fields at different places, only the second focused, both drawn.
C10_BothFieldsDrawn ==
    /\ lastOp.op = "UIDraw"
    /\ ~panicked
    /\ Len(fields) = 2
    /\ Focused = {2}
    /\ fields[1].X # fields[2].X
    /\ Len(surface) = 4

----------------------------------------------------------------------------
(* Properties of the EditBox *)

IsEditKey(op, key) == op.op = "EditBox.HandleKey" /\ op.key = key

\* C11: after any key events on an EditBox, 0 <= CursorIndex <= len(Value);
\* Right at len(Value) and Left at 0 leave the cursor where it is.
C11_CursorInsideBuffer ==
    /\ [](0 <= eb.CursorIndex /\ eb.CursorIndex <= Len(eb.Value))
    /\ [][/\ (IsEditKey(lastOp', "KeyArrowRight") /\ eb.CursorIndex = Len(eb.Value))
                 => eb'.CursorIndex = eb.CursorIndex
          /\ (IsEditKey(lastOp', "KeyArrowLeft") /\ eb.CursorIndex = 0)
                 => eb'.CursorIndex = 0]_vars

\* C12: in every state reachable by key events, a printable character key
\* inserts the character at index CursorIndex, the buffer growing by exactly
\* that one character, and advances CursorIndex by one.
C12_TypedCharInserted ==
    [][(IsEditKey(lastOp', "") /\ lastOp'.rune # 0) =>
          /\ Len(eb'.Value) = Len(eb.Value) + 1
          /\ InRange(eb'.Value, eb.CursorIndex)
          /\ At(eb'.Value, eb.CursorIndex) = lastOp'.rune
          /\ removeCharacter(eb'.Value, eb.CursorIndex) = eb.Value
          /\ eb'.CursorIndex = eb.CursorIndex + 1]_vars

\* C13: an EditBox of width W that starts empty and is typed a string of L <= W
\* printable characters has CursorIndex = L and Value equal to the string.
C13_TypedStringStored ==
    (typed # <<-1>> /\ Len(typed) <= eb.Width) =>
        (eb.CursorIndex = Len(typed) /\ eb.Value = typed)

\* Two different runes were typed into an empty box of width 2.
C13_TwoRunesTyped ==
    /\ typed = <<233, 32>>
    /\ eb.Width = 2
    /\ IsEditKey(lastOp, "KeySpace")

\* C14: drawing an EditBox of width W whose buffer is longer than W leaves
\* as the stored and displayed buffer the last W characters of the buffer.
C14_DrawKeepsLastW ==
    [][(lastOp'.op = "EditBox.Draw" /\ Len(eb.Value) > eb.Width) =>
          LET lastW == Slice(eb.Value, Len(eb.Value) - eb.Width, Len(eb.Value))
          IN  /\ eb'.Value = lastW
              /\ surface'[1] = <<"Text", StringOfRunes(<<47, 62, 32>> \o lastW)>>]_vars

\* C15: Enter sends exactly one UIEvent of kind string with the box's
\* CustomType whose payload is the buffer as it was when Enter was pressed;
\* once the key is handled the buffer is empty and CursorIndex is 0.
C15_EnterSendsBuffer ==
    [][/\ IsEditKey(lastOp', "KeyEnter") =>
             /\ Len(sending') = 1
             /\ sending'[1].Type = "UIResultString"
             /\ sending'[1].CustomType = eb.CustomType
             /\ RunesOfString(sending'[1].Data) = eb.Value
             /\ results' = results
       /\ lastOp'.op = "EditBox.Sent" =>
             /\ results' = Append(results, sending[1])
             /\ sending' = <<>>
             /\ eb'.Value = <<>>
             /\ eb'.CursorIndex = 0
       /\ lastOp'.op # "EditBox.Sent" => results' = results]_vars

\* A buffer of a two-byte rune and a space was sent and received.
C15_TypedTextReceived ==
    /\ lastOp.op = "EditBox.Sent"
    /\ Len(results) = 1
    /\ RunesOfString(results[1].Data) = <<233, 32>>
    /\ eb.Value = <<>>
    /\ eb.CursorIndex = 0

----------------------------------------------------------------------------
(* Properties of the Table *)

\* What SetCell(column, row, text) does to a table of the given columns and rows.
SetCellWithin(columns, rows) ==
    LET column == lastOp'.column
        row    == lastOp'.row
    IN  lastOp'.op = "Table.SetCell" =>
           IF column \in 0..(columns - 1) /\ row \in 0..(rows - 1)
           THEN /\ ok' = TRUE
                /\ InRange(table'.cells, column)
                /\ InRange(At(table'.cells, column), row)
                /\ \A c \in 0..(table.Columns - 1), r \in 0..(table.Rows - 1) :
                      At(At(table'.cells, c), r) =
                          IF c = column /\ r = row THEN lastOp'.text
                          ELSE At(At(table.cells, c), r)
           ELSE /\ ok' = FALSE
                /\ table' = table

\* C16 as stated: SetCell returns false and changes nothing outside
\* [0,Columns) x [0,Rows) as declared at creation, and otherwise returns true
\* and sets that cell only.
C16_DeclaredRange == [][SetCellWithin(declared[1], declared[2])]_vars

\* C16: SetCell returns false and changes nothing outside [0,Columns) x
\* [0,Rows), where Rows is the declared row count cut to the table's height,
\* and otherwise returns true and sets that cell only.
C16_KeptRange ==
    /\ [](table.Rows = Min(declared[2], table.Height) /\ table.Columns = declared[1])
    /\ [][SetCellWithin(table.Columns, table.Rows)]_vars

\* A cell was written, and then SetCell was refused a row that is below the
\* declared row count but not below the table's height.
C16_RowBeyondHeight ==
    /\ lastOp.op = "Table.SetCell"
    /\ ~ok
    /\ lastOp.column \in 0..(table.Columns - 1)
    /\ lastOp.row >= table.Rows
    /\ lastOp.row < declared[2]
    /\ \E c \in 1..table.Columns, r \in 1..table.Rows : table.cells[c][r] # ""

----------------------------------------------------------------------------
(* Properties of the TextBox *)

\* C17: after any AddText calls and Up/Down keys the scroll offset is within
\* [0, max(0, lineCount - visibleHeight)], the visible height being Height,
\* less 2 when bordered.
C17_ScrollOffsetBounded ==
    LET visibleHeight == IF tb.HasBorder THEN tb.Height - 2 ELSE tb.Height
        most == IF tb.textHeight - visibleHeight > 0
                THEN tb.textHeight - visibleHeight ELSE 0
    IN  0 <= tb.activeIndex /\ tb.activeIndex <= most

\* C18: a TextBox of width 40 without border and with wrapText, given one
\* line of 100 non-space characters, then holds 3 lines of at most 39
\* characters each.
C18_LongLineWrapped ==
    [][(/\ lastOp'.op = "TextBox.AddText"
        /\ lastOp'.text = Line100
        /\ tb.Width = 40 /\ ~tb.HasBorder /\ tb.WrapText
        /\ tb.textHeight = 0) =>
          /\ tb'.textHeight = 3
          /\ Len(tb'.text) = 3
          /\ \A k \in 1..Len(tb'.text) : Len(tb'.text[k]) <= 39]_vars

----------------------------------------------------------------------------
(* Properties of the option list and of the window height *)

\* C19: InsertMenuOption(index, opt) puts opt before the option at index
\* when 0 <= index < n, and after the last option for any other index; every
\* option of the list is kept once, in order.
C19_InsertKeepsOptions ==
    [][lastOp'.op = "InsertMenuOption" =>
          LET index == lastOp'.index
              n     == Len(Options)
              opt   == FreshOption(n)
          IN  Options' = IF 0 <= index /\ index < n
                         THEN Slice(Options, 0, index) \o <<opt>>
                                  \o Slice(Options, index, n)
                         ELSE Append(Options, opt)]_vars

\* C20: after any Up/Down keys and Draw calls the window is never taller
\* than the menu's height, and each key moves menuTop and menuBottom by the
\* same amount, which is -1, 0 or +1.
C20_WindowWithinHeight ==
    /\ [](menuBottom - menuTop <= Height)
    /\ [][lastOp'.op = "HandleKey" =>
            /\ menuTop' - menuTop = menuBottom' - menuBottom
            /\ menuTop' - menuTop \in {-1, 0, 1}]_vars

\* The window has slid down and is as tall as the menu.
C20_WindowSlid ==
    /\ IsKey(lastOp, "KeyArrowDown")
    /\ menuTop > 0
    /\ menuBottom - menuTop = Height

----------------------------------------------------------------------------
(* Properties of TextBox.HandleKey and of text added to a TextBox *)

\* The rows TextBox.Draw renders are [activeIndex, activeIndex + interior
\* height], the interior height being Height, less 2 when bordered.
InteriorHeight == IF tb.HasBorder THEN tb.Height - 2 ELSE tb.Height
LastLineBeyond == tb.textHeight - 1 > tb.activeIndex + InteriorHeight
LastLineShown ==
    /\ tb.activeIndex <= tb.textHeight - 1
    /\ tb.textHeight - 1 <= tb.activeIndex + InteriorHeight

\* C21: Up lowers the scroll offset by one but not below 0; Down raises it
\* by one when the last buffered line lies beyond the rendered rows and
\* leaves it unchanged when the view already shows the last line; any other
\* key leaves the offset unchanged and is not consumed.
C21_ScrollByKey ==
    [][lastOp'.op = "TextBox.HandleKey" =>
          /\ lastOp'.key = "KeyArrowUp" =>
                tb'.activeIndex = (IF tb.activeIndex = 0 THEN 0 ELSE tb.activeIndex - 1)
          /\ (lastOp'.key = "KeyArrowDown" /\ LastLineBeyond) =>
                tb'.activeIndex = tb.activeIndex + 1
          /\ (lastOp'.key = "KeyArrowDown" /\ LastLineShown) =>
                tb'.activeIndex = tb.activeIndex
          /\ lastOp'.key \notin {"KeyArrowUp", "KeyArrowDown"} =>
                (tb'.activeIndex = tb.activeIndex /\ eventConsumed' = FALSE)]_vars

----------------------------------------------------------------------------
(* Properties of the Menu's initial state, digit keys and Draw *)

\* C22 as stated: before any key event or Draw, a Menu created with height H
\* and given N options has activeIndex = 0 and the window [0, min(H, N)).
C22_InitialWindowClipped ==
    lastOp.op = "Init" =>
        /\ activeIndex = 0
        /\ menuTop = 0
        /\ menuBottom = Min(Height, Len(Options))

\* C22: before any key event or Draw the Menu has activeIndex = 0 and the
\* window [0, H), whatever N is; a Draw before any key event makes the window
\* [0, min(H, N)).
C22_InitialWindowIsHeight ==
    /\ lastOp.op = "Init" =>
          (activeIndex = 0 /\ menuTop = 0 /\ menuBottom = Height)
    /\ (lastOp.op = "Draw" /\ downs = 0) =>
          (activeIndex = 0 /\ menuTop = 0 /\ menuBottom = Min(Height, Len(Options)))

\* A menu with fewer options than rows was drawn before any key event.
C22_FewOptionsDrawn ==
    /\ lastOp.op = "Draw"
    /\ downs = 0
    /\ Len(Options) >= 1
    /\ Len(Options) < Height
    /\ menuBottom = Len(Options)

\* C23: a digit character d in '1'..'9' sets activeIndex to d-1 and leaves
\* menuTop, menuBottom, the option list and the help flag unchanged, whatever
\* the state was.
C23_DigitSetsIndex ==
    [][\A d \in 1..9 :
          (IsKey(lastOp', "") /\ lastOp'.ch = Digits[d]) =>
              /\ activeIndex' = d - 1
              /\ UNCHANGED <<menuTop, menuBottom, Options, DrawHelpBox>>]_vars

\* The digit 9 was typed into a menu of fewer than nine options.
C23_DigitBeyondOptions ==
    /\ IsKey(lastOp, "")
    /\ lastOp.ch = "9"
    /\ activeIndex = 8
    /\ Len(Options) >= 1
    /\ Len(Options) < 9
    /\ menuBottom <= Height

----------------------------------------------------------------------------
(* Table.Draw: the highlighted cells *)

\* The table has just been drawn.
TableJustDrawn == lastOp.op = "Table.Draw" /\ ~panicked

\* The drawn text box d shows its cell with the colours inverted.
Highlighted(d) == d.fg = ActiveFg(table) /\ d.bg = ActiveBg(table)

\* The active row/column mask, -1 matching every cell of its axis.
InMask(c, r) ==
    /\ table.ActiveColumn = -1 \/ table.ActiveColumn = c
    /\ table.ActiveRow = -1 \/ table.ActiveRow = r

\* The cells of the table that hold a value.
FilledCells ==
    { <<c, r>> \in (0..(table.Columns - 1)) \X (0..(table.Rows - 1)) :
          table.cells[c + 1][r + 1] # "" }

\* C24 as stated: a drawn cell is highlighted exactly when it is in the
\* active row/column mask, for every ActiveColumn and ActiveRow including both
\* being -1.
C24_MaskHighlights ==
    TableJustDrawn =>
        \A k \in 1..Len(surface) :
            Highlighted(surface[k]) <=> InMask(surface[k].column, surface[k].row)

\* C24: Table.Draw draws exactly the cells that hold a value, each once, and
\* a drawn cell is highlighted exactly when it is in the active row/column
\* mask and ActiveColumn and ActiveRow are not both -1; with both -1 no cell
\* is highlighted.
C24_MaskHighlightsUnlessNone ==
    TableJustDrawn =>
        /\ { <<surface[k].column, surface[k].row>> : k \in 1..Len(surface) } = FilledCells
        /\ Len(surface) = Cardinality(FilledCells)
        /\ \A k \in 1..Len(surface) :
              Highlighted(surface[k]) <=>
                  /\ InMask(surface[k].column, surface[k].row)
                  /\ ~(table.ActiveColumn = -1 /\ table.ActiveRow = -1)

\* A whole column is active: both of its filled cells are drawn highlighted
\* and the filled cell of the other column is drawn plain.
C24_ColumnHighlighted ==
    /\ TableJustDrawn
    /\ table.ActiveColumn = 0 /\ table.ActiveRow = -1
    /\ Len(surface) = 3
    /\ surface[1].column = 0 /\ Highlighted(surface[1])
    /\ surface[2].column = 0 /\ Highlighted(surface[2])
    /\ surface[3].column = 1 /\ ~Highlighted(surface[3])

----------------------------------------------------------------------------
(* EditBox: Backspace *)

\* The step is the EditBox handling the key, or typing the rune.
EditStep(key, ch) ==
    /\ lastOp'.op = "EditBox.HandleKey"
    /\ lastOp'.key = key
    /\ lastOp'.rune = ch

\* The EditBox holds the value at the cursor.
EditAt(value, cursor) == eb.Value = value /\ eb.CursorIndex = cursor

\* C25: Backspace with the cursor at c, 1 <= c <= len(Value), removes exactly
\* the character at index c-1 and moves the cursor to c-1; with the cursor at
\* 0 it changes neither.  From "abc" with the cursor at 3: Backspace gives
\* "ab" and cursor 2, Left gives cursor 1, typing x gives "axb" and cursor 2.
C25_BackspaceRemovesBefore ==
    [][/\ EditStep("KeyBackspace2", 0) =>
            LET c == eb.CursorIndex
                n == Len(eb.Value)
            IN  /\ (c >= 1 /\ c <= n) =>
                      /\ Len(eb'.Value) = n - 1
                      /\ \A i \in 1..(n - 1) :
                            eb'.Value[i] = IF i < c THEN eb.Value[i] ELSE eb.Value[i + 1]
                      /\ eb'.CursorIndex = c - 1
                /\ c = 0 => (eb'.Value = eb.Value /\ eb'.CursorIndex = 0)
       /\ (EditAt(<<97, 98, 99>>, 3) /\ EditStep("KeyBackspace2", 0))
              => EditAt(<<97, 98>>, 2)'
       /\ (EditAt(<<97, 98>>, 2) /\ EditStep("KeyArrowLeft", 0))
              => EditAt(<<97, 98>>, 1)'
       /\ (EditAt(<<97, 98>>, 1) /\ EditStep("", 120))
              => EditAt(<<97, 120, 98>>, 2)'
      ]_vars

\* Backspace has just removed the character before the cursor from a buffer
\* of three, leaving "ab" with the cursor behind it.
C25_BackspaceAtEnd ==
    /\ lastOp.op = "EditBox.HandleKey" /\ lastOp.key = "KeyBackspace2"
    /\ EditAt(<<97, 98>>, 2)

----------------------------------------------------------------------------
(* Menu.HandleKey: keys the menu does not recognise *)

\* The key event is one the menu has no use for: a character that is no
\* digit, or Left or Right in List mode.
MenuUnrecognised(key, ch) ==
    \/ key = "" /\ ch # "" /\ \A i \in 1..Len(Digits) : Digits[i] # ch
    \/ Mode = "MenuList" /\ key \in {"KeyArrowLeft", "KeyArrowRight"}

\* C26: a key event the Menu does not recognise (a character other than
\* '1'..'9'; Left or Right in List mode) is reported as not consumed and
\* changes no state of the menu.
C26_UnrecognisedNotConsumed ==
    [][(lastOp'.op = "HandleKey" /\ MenuUnrecognised(lastOp'.key, lastOp'.ch)) =>
           (eventConsumed' = FALSE /\ UNCHANGED menuVars)]_vars

----------------------------------------------------------------------------
(* TextBox.AddText: the first empty line *)

\* The lines of the text before its first empty line, tabs expanded.
BeforeEmpty(text) ==
    LET l == Split(text)
        j == IF \E i \in 1..Len(l) : l[i] = <<>>
             THEN CHOOSE i \in 1..Len(l) : l[i] = <<>> /\ \A h \in 1..(i - 1) : l[h] # <<>>
             ELSE Len(l) + 1
    IN  [i \in 1..(j - 1) |-> ExpandTabs(l[i])]

\* The piece is a run of consecutive characters of the line.
IsPartOf(piece, line) ==
    \E a \in 0..(Len(line) - Len(piece)) : SubSeq(line, a + 1, a + Len(piece)) = piece

\* C27: AddText stops at the first empty line of the text: the lines already
\* in the buffer stay unchanged and in place, every line appended is (a part
\* of) a line before the first empty one, and when none of those lines is
\* wrapped the lines appended are exactly the lines before the first empty one.
C27_StopsAtEmptyLine ==
    [][(lastOp'.op = "TextBox.AddText" /\ ~panicked') =>
          LET before == BeforeEmpty(lastOp'.text)
              old    == tb.textHeight
              added  == [i \in 1..(tb'.textHeight - old) |-> tb'.text[old + i]]
          IN  /\ tb'.textHeight >= old
              /\ Len(tb'.text) >= old
              /\ \A i \in 1..old : i <= Len(tb.text) => tb'.text[i] = tb.text[i]
              /\ \A i \in 1..Len(added) :
                    \E h \in 1..Len(before) : IsPartOf(added[i], before[h])
              /\ (~tb.WrapText \/ \A h \in 1..Len(before) : Len(before[h]) <= AddWidth)
                    => added = before
      ]_vars

\* "x", an empty line and "y" were added to a box holding two lines: only "x"
\* was appended.
C27_OnlyFirstLineAdded ==
    /\ lastOp.op = "TextBox.AddText"
    /\ lastOp.text = <<120, 10, 10, 121>>
    /\ ~panicked
    /\ tb.textHeight = 3
    /\ tb.text = << <<120, 121>>, <<122>>, <<120>> >>

----------------------------------------------------------------------------
(* CreateTextBox: the dimensions of the box *)

\* The dimension a box gets for the dimension asked, on a surface of the
\* given size: the size of the surface for a negative one and for one beyond
\* the surface.
Resolved(asked, full) == IF asked < 0 \/ asked > full THEN full ELSE asked

\* C28: CreateTextBox resolves every negative width to the full width of the
\* surface and every negative height to its full height, replaces a width or
\* height larger than the surface by the surface's, and the box keeps these
\* dimensions afterwards.
C28_DimensionsResolved ==
    /\ ~(panicked /\ lastOp.op = "Init")
    /\ tb.Width = Resolved(declared[1], ScreenWidth)
    /\ tb.Height = Resolved(declared[2], ScreenHeight)

----------------------------------------------------------------------------
(* Menu.Draw: the cells filled and the cell highlighted *)

\* The drawn cell d of the menu's table is shown with the colours inverted.
MenuHighlighted(d) == d.fg = ActiveFg(MenuTable) /\ d.bg = ActiveBg(MenuTable)

\* The titles of the options in the window [menuTop, menuBottom), in order.
WindowTitles ==
    [k \in 1..(menuBottom - menuTop) |->
        IF InRange(Options, menuTop + k - 1)
        THEN TitleText(At(Options, menuTop + k - 1))
        ELSE ""]

\* C29: after any sequence of Up and Down key events on a List-mode menu with
\* at least one option (and at least one row), Draw fills cells with exactly
\* the titles of the options in [menuTop, menuBottom), highlights exactly one
\* filled cell, the one showing Options[activeIndex], and the column and row
\* computed from activeIndex map back to activeIndex.
C29_ActiveOptionHighlighted ==
    (lastOp.op = "Draw" /\ Mode = "MenuList" /\ Len(Options) >= 1 /\ Height >= 1) =>
        /\ ~panicked
        /\ [k \in 1..Len(surface) |-> surface[k].value] = WindowTitles
        /\ Cardinality({k \in 1..Len(surface) : MenuHighlighted(surface[k])}) = 1
        /\ \A k \in 1..Len(surface) :
              MenuHighlighted(surface[k]) =>
                  /\ InRange(Options, activeIndex)
                  /\ surface[k].value = TitleText(At(Options, activeIndex))
        /\ getIndexFromCoordinates(DrawRows, MenuTable.ActiveColumn, MenuTable.ActiveRow)
              = activeIndex

----------------------------------------------------------------------------
(* Menu.Draw: the navigation state *)

\* C30 as stated: Draw leaves activeIndex, menuTop and menuBottom as they
\* were.
C30_DrawChangesNothing ==
    [][lastOp'.op = "Draw" => UNCHANGED <<activeIndex, menuTop, menuBottom>>]_vars

\* C30: Draw leaves activeIndex and menuTop as they were and changes
\* menuBottom only when the menu has fewer options than rows, to the number
\* of options; and while the menu has fewer options than rows no Up or Down
\* key moves the window, so that activeIndex and menuTop after a sequence of
\* key events do not depend on the Draw calls in between.
C30_DrawOnlyClipsBottom ==
    [][/\ lastOp'.op = "Draw" =>
            /\ activeIndex' = activeIndex
            /\ menuTop' = menuTop
            /\ menuBottom' = IF Len(Options) < Height THEN Len(Options) ELSE menuBottom
       /\ (lastOp'.op = "HandleKey" /\ Len(Options) < Height) =>
            /\ menuTop' = menuTop
            /\ menuBottom' = menuBottom
            /\ menuBottom \in {Height, Len(Options)}
      ]_vars

\* A menu with fewer options than rows was drawn after Down had moved the
\* active index: the window ends at the last option.
C30_DrawnAfterDown ==
    /\ lastOp.op = "Draw"
    /\ ~panicked
    /\ Len(Options) < Height
    /\ activeIndex = 1
    /\ menuTop = 0
    /\ menuBottom = Len(Options)

----------------------------------------------------------------------------
(* main: the send of an EditBox or a Button inside HandleInput *)

\* C31: with the unbuffered result channel received from only by the loop
\* that calls HandleInput, HandleInput always returns: main, waiting inside
\* HandleInput for the send of a focused EditBox or Button on Enter,
\* eventually leaves it.
C31_HandleInputReturns == (mainpc = "HandleInput") ~> (mainpc # "HandleInput")

----------------------------------------------------------------------------
(* main: the events polled by the goroutines of pollEvent() *)

\* C32: every event returned by PollEvent is received by the loop: no
\* goroutine of pollEvent() holds a polled event for a channel the loop no
\* longer reads, that is, any channel but the one of the select main is
\* waiting in.
C32_NoPolledEventLeft ==
    \A p \in 1..Len(polls) :
        polls[p].state = "sending" => (p = Selected /\ mainpc = "select")

----------------------------------------------------------------------------
(* Menu.RemoveMenuOption: the options left and the navigation state *)

\* C33: RemoveMenuOption(index) with 0 <= index < len(Options), on a menu
\* whose active index and window lie within the options, removes exactly that
\* option and keeps the others in order, and afterwards, if an option
\* remains, activeIndex < len(Options) and menuBottom <= len(Options) (the
\* latter asked only of menus that have no more rows than options, since Draw
\* cuts the window of the others).
C33_RemoveKeepsStateValid ==
    [][(/\ lastOp'.op = "RemoveMenuOption"
        /\ InRange(Options, lastOp'.index)
        /\ InRange(Options, activeIndex)
        /\ menuBottom <= Len(Options)) =>
          /\ Len(Options') = Len(Options) - 1
          /\ \A k \in 1..Len(Options') :
                Options'[k] = IF k <= lastOp'.index THEN Options[k] ELSE Options[k + 1]
          /\ Len(Options') >= 1 =>
                /\ activeIndex' < Len(Options')
                /\ Len(Options') >= Height => menuBottom' <= Len(Options')
      ]_vars

====
